---------------------------- MODULE Spec2Model ----------------------------
(***************************************************************************)
(* A model of the HTTP authentication engine of swiss-cheese               *)
(* (src/src/HttpAuth.ts): the WWW-Authenticate parser, the scheme          *)
(* selection, the Digest and Basic header computation and the              *)
(* HttpAuthenticator session.                                              *)
(*                                                                         *)
(* Strings are sequences of one-character strings, so that indexOf,        *)
(* substring, toLowerCase, split and the template literals of the source   *)
(* are computed character by character.  The JavaScript value `undefined`  *)
(* is the one-element sequence Undefined, whose element is no character.   *)
(* The hash is opaque: md5(s) is s between two tokens that are no          *)
(* characters, which makes md5 injective and its result again a string.    *)
(***************************************************************************)
EXTENDS Integers, Sequences, FiniteSets, TLC

(***************************************************************************)
(* The state: one HttpAuthenticator, and the last call of an exported      *)
(* function.  The parameters of the operators below are named info, user,  *)
(* pass, cnonce and count where the source says authInfo, username,        *)
(* password, clientNonce and nonceCount, the names of the session's fields.*)
(***************************************************************************)
VARIABLES
  nonceCount,     \* this.nonceCount
  authInfo,       \* this.authInfo: <<>> while unset, <<obj>> once installed
  username,       \* this.username
  password,       \* this.password
  clientNonce,    \* this.clientNonce
  lastCall,       \* the last call on the session: op, args, result, and the
                  \* session as it was before the call
  lastUsedCount,  \* the nonce count the last getAuthorizationHeader passed to the
                  \* digest computation against the installed challenge object,
                  \* 0 when it has not been used yet
  sinceInstall,   \* the nc fields reported by the getAuthorizationHeader calls that
                  \* directly follow the last successful setWwwAuthenticate, and
                  \* the clientNonce that call drew
  call,           \* the call of an exported function: fn, args, done, result
  timers,         \* the Timer objects: for each its fields and what was called on it
  backoffTimer,   \* the fields of a BackoffTimer
  now,            \* Date.now(), in milliseconds
  waits,          \* the wait() calls on the BackoffTimer: for each its timeout
                  \* and its promise
  backoffCall,    \* the last call on the BackoffTimer: op, result, and what
                  \* went before it
  queue,          \* a Queue: head, tail and the nodes that were allocated
  deque,          \* the elements pushed on the Queue and not popped, as a sequence
  queueCall,      \* the last call on the Queue: op and result
  pool,           \* a Pool: its queue, and the createElement() calls it made
  poolObjects,    \* the PoolObjects Pool.get() returned
  poolCall,       \* the last call on the Pool, and the items released and not
                  \* yet handed out again
  retry           \* a runWithRetry call: its locals and its position

(***************************************************************************)
(* JavaScript values and string primitives                                 *)
(***************************************************************************)
Undefined == <<"undefined-value">>

isSet(obj) == obj # Undefined

notSet(obj) == obj = Undefined

isString(obj) == obj # Undefined

\* `${v}` in a template literal: undefined is rendered as the text undefined
Template(v) == IF v = Undefined THEN <<"u","n","d","e","f","i","n","e","d">> ELSE v

\* s.indexOf(c): the 0-based index of the first c in s, -1 when there is none
indexOf(s, c) ==
  IF \E i \in 1..Len(s) : s[i] = c
  THEN (CHOOSE i \in 1..Len(s) : s[i] = c /\ \A j \in 1..(i - 1) : s[j] # c) - 1
  ELSE -1

\* s.lastIndexOf(c)
lastIndexOf(s, c) ==
  IF \E i \in 1..Len(s) : s[i] = c
  THEN (CHOOSE i \in 1..Len(s) : s[i] = c /\ \A j \in (i + 1)..Len(s) : s[j] # c) - 1
  ELSE -1

Min(a, b) == IF a < b THEN a ELSE b

Max(a, b) == IF a > b THEN a ELSE b

\* s.substring(from, to) with 0-based indices, clamped to the string
substring(s, from, to) == SubSeq(s, Min(from, Len(s)) + 1, Min(to, Len(s)))

\* s.substring(from)
substringFrom(s, from) == substring(s, from, Len(s))

startsWith(s, c) == Len(s) > 0 /\ s[1] = c

UpperChars == <<"A","B","C","D","E","F","G","H","I","J","K","L","M","N","O","P","Q","R","S","T","U","V","W","X","Y","Z">>

LowerChars == <<"a","b","c","d","e","f","g","h","i","j","k","l","m","n","o","p","q","r","s","t","u","v","w","x","y","z">>

toLowerCaseChar(c) ==
  IF \E i \in 1..Len(UpperChars) : UpperChars[i] = c
  THEN LowerChars[CHOOSE i \in 1..Len(UpperChars) : UpperChars[i] = c]
  ELSE c

\* s.toLowerCase()
\* variant of toLowerCase: the text as it is
toLowerCase_keep(s) == s

toLowerCase(s) == [i \in 1..Len(s) |-> toLowerCaseChar(s[i])]

\* s.trimLeft(), the white space of the model being the space character
RECURSIVE trimLeft(_)
trimLeft(s) == IF startsWith(s, " ") THEN trimLeft(Tail(s)) ELSE s

\* s.split(c): the pieces of s between the occurrences of c
RECURSIVE split(_, _)
split(s, c) ==
  LET i == indexOf(s, c)
  IN IF i < 0 THEN <<s>>
     ELSE <<substring(s, 0, i)>> \o split(substringFrom(s, i + 1), c)

\* list.indexOf(x) >= 0
includes(list, x) == \E i \in 1..Len(list) : list[i] = x

\* '0'.repeat(n)
RECURSIVE repeatZero(_)
repeatZero(n) == IF n <= 0 THEN <<>> ELSE <<"0">> \o repeatZero(n - 1)

(***************************************************************************)
(* Results of calls that may throw                                         *)
(***************************************************************************)
Ok(v) == [kind |-> "ok", val |-> v]

Throw(k, v) == [kind |-> k, val |-> v]

ParseErrorKind == "Could not parse WWW-Authenticate header"

TypeErrorKind == "TypeError"

SyntaxErrorKind == "SyntaxError"

HeaderTypeErrorKind == "Type error. headerValue must be a string."

UnsupportedSchemeKind == "No supported authorization types in"

UnsupportedQopKind == "No supported QOP type in"

PreconditionKind == "Precondition failed"

NonceUnsetKind == "nonce must be set"

CnonceUnsetKind == "cnonce must be set"

InternalErrorKind == "Internal error: unknown auth type"

(***************************************************************************)
(* Objects: a JavaScript object is a function from its own keys to values  *)
(***************************************************************************)
EmptyObject == <<>>

\* obj[key]
getProp(obj, key) == IF key \in DOMAIN obj THEN obj[key] ELSE Undefined

\* obj[key] = value
setProp(obj, key, value) == (key :> value) @@ obj

K_authType == <<"a","u","t","h","T","y","p","e">>

K_realm == <<"r","e","a","l","m">>

K_nonce == <<"n","o","n","c","e">>

K_qop == <<"q","o","p">>

K_opaque == <<"o","p","a","q","u","e">>

K_algorithm == <<"a","l","g","o","r","i","t","h","m">>

K_stale == <<"s","t","a","l","e">>

S_digest == <<"d","i","g","e","s","t">>

S_basic == <<"b","a","s","i","c">>

S_auth == <<"a","u","t","h">>

S_auth_int == <<"a","u","t","h","-","i","n","t">>

S_MD5 == <<"M","D","5">>

S_MD5_sess == <<"M","D","5","-","s","e","s","s">>

S_true == <<"t","r","u","e">>

(***************************************************************************)
(* JSON.parse of a double-quoted string that holds no inner quote          *)
(***************************************************************************)
\* the printable ASCII characters, code 32 to 126 (<GRAVE> is code 96)
Ascii == <<" ","!","\"","#","$","%","&","'","(",")","*","+",",","-",".","/","0","1","2","3","4","5","6","7","8","9",":",";","<","=",">","?","@","A","B","C","D","E","F","G","H","I","J","K","L","M","N","O","P","Q","R","S","T","U","V","W","X","Y","Z","[","\\","]","^","_","<GRAVE>","a","b","c","d","e","f","g","h","i","j","k","l","m","n","o","p","q","r","s","t","u","v","w","x","y","z","{","|","}","~">>

HexDigits == <<"0","1","2","3","4","5","6","7","8","9","a","b","c","d","e","f">>

isHexDigit(c) == \E i \in 1..Len(HexDigits) : HexDigits[i] = toLowerCaseChar(c)

hexValue(c) == (CHOOSE i \in 1..Len(HexDigits) : HexDigits[i] = toLowerCaseChar(c)) - 1

\* String.fromCharCode of the code unit written \uXXXX: the character when it
\* is printable ASCII, and otherwise a token that stands for the code unit
unicodeEscape(a, b, c, d) ==
  LET code == ((hexValue(a) * 16 + hexValue(b)) * 16 + hexValue(c)) * 16 + hexValue(d)
  IN IF code >= 32 /\ code <= 126
     THEN Ascii[code - 31]
     ELSE "U+" \o toLowerCaseChar(a) \o toLowerCaseChar(b) \o toLowerCaseChar(c) \o toLowerCaseChar(d)

\* the character a JSON escape \c stands for, "" when \c is no JSON escape
simpleEscape(c) ==
  CASE c = "\\" -> "\\"
    [] c = "/" -> "/"
    [] c = "\"" -> "\""
    [] c = "b" -> "<BS>"
    [] c = "f" -> "\f"
    [] c = "n" -> "\n"
    [] c = "r" -> "\r"
    [] c = "t" -> "\t"
    [] OTHER -> ""

RECURSIVE jsonUnescape(_)
jsonUnescape(s) ==
  IF Len(s) = 0 THEN Ok(<<>>)
  ELSE IF s[1] # "\\"
  THEN LET r == jsonUnescape(Tail(s))
       IN IF r.kind = "ok" THEN Ok(<<s[1]>> \o r.val) ELSE r
  ELSE IF Len(s) < 2 THEN Throw(SyntaxErrorKind, s)
  ELSE IF s[2] = "u"
  THEN IF Len(s) >= 6 /\ \A i \in 3..6 : isHexDigit(s[i])
       THEN LET r == jsonUnescape(substringFrom(s, 6))
            IN IF r.kind = "ok"
               THEN Ok(<<unicodeEscape(s[3], s[4], s[5], s[6])>> \o r.val)
               ELSE r
       ELSE Throw(SyntaxErrorKind, s)
  ELSE IF simpleEscape(s[2]) = "" THEN Throw(SyntaxErrorKind, s)
  ELSE LET r == jsonUnescape(substringFrom(s, 2))
       IN IF r.kind = "ok" THEN Ok(<<simpleEscape(s[2])>> \o r.val) ELSE r

\* JSON.parse(text) for text = "..." whose content holds no double quote
JSONparse(text) == jsonUnescape(substring(text, 1, Len(text) - 1))

(***************************************************************************)
(* parseWwwAuthenticateHeader                                              *)
(***************************************************************************)
\* headerValue.match(/"([^"]|\\")*",? */) for a headerValue that starts with a
\* double quote: <<>> is null, <<m>> the array whose element 0 is m.  [^"]
\* takes a backslash too, so the repetition stops at the first double quote
\* after the opening one, and the match is up to it, then an optional comma,
\* then spaces.  With no second double quote nothing matches at any index.
RECURSIVE spacesAt(_, _)
spacesAt(s, i) == IF i < Len(s) /\ s[i + 1] = " " THEN 1 + spacesAt(s, i + 1) ELSE 0

matchQuotedValue(headerValue) ==
  LET close == indexOf(Tail(headerValue), "\"")
  IN IF close < 0 THEN <<>>
     ELSE LET afterQuote == close + 2
              comma == IF afterQuote < Len(headerValue) /\ headerValue[afterQuote + 1] = ","
                       THEN 1 ELSE 0
              spaces == spacesAt(headerValue, afterQuote + comma)
          IN <<substring(headerValue, 0, afterQuote + comma + spaces)>>

RECURSIVE parseLoop(_, _, _)
parseLoop(headerValue, info, originalHeaderValue) ==
  IF Len(headerValue) = 0 THEN Ok(info)
  ELSE
  LET equalsIndex == indexOf(headerValue, "=")
      spaceIndex == indexOf(headerValue, " ")
  IN IF spaceIndex >= 0 /\ equalsIndex >= 0 /\ spaceIndex < equalsIndex
     THEN parseLoop(substringFrom(headerValue, spaceIndex + 1),
                    setProp(info, K_authType,
                            toLowerCase(substring(headerValue, 0, spaceIndex))),
                    originalHeaderValue)
     ELSE IF equalsIndex < 0 THEN Throw(ParseErrorKind, originalHeaderValue)
     ELSE
     LET key == substring(headerValue, 0, equalsIndex)
         rest == substringFrom(headerValue, equalsIndex + 1)
     IN IF startsWith(rest, "\"")
        THEN LET matches == matchQuotedValue(rest)
             IN IF matches = <<>> THEN Throw(TypeErrorKind, originalHeaderValue)
                ELSE
                LET stringValue == matches[1]
                    stringValueWithoutTrailingCharacters ==
                      substring(stringValue, 0, lastIndexOf(stringValue, "\"") + 1)
                    parsed == JSONparse(stringValueWithoutTrailingCharacters)
                IN IF parsed.kind # "ok" THEN parsed
                   ELSE parseLoop(substringFrom(rest, Len(stringValue)),
                                  setProp(info, key, parsed.val),
                                  originalHeaderValue)
        ELSE LET comma == indexOf(rest, ",")
                 endOfValue == IF comma < 0 THEN Len(rest) ELSE comma
             IN parseLoop(trimLeft(substringFrom(rest, endOfValue + 1)),
                          setProp(info, key, substring(rest, 0, endOfValue)),
                          originalHeaderValue)

parseWwwAuthenticateHeader(headerValue) ==
  IF ~isString(headerValue) THEN Throw(HeaderTypeErrorKind, headerValue)
  ELSE parseLoop(headerValue, EmptyObject, headerValue)

(***************************************************************************)
(* md5, toPaddedHexString and base64                                       *)
(***************************************************************************)
\* crypto.createHash('md5').update(str).digest('hex'), kept opaque
md5(str) == <<"md5(">> \o str \o <<")">>

\* n.toString(16) for an integer n >= 0
RECURSIVE toString16(_)
toString16(n) ==
  IF n < 16 THEN <<HexDigits[n + 1]>>
  ELSE toString16(n \div 16) \o <<HexDigits[(n % 16) + 1]>>

\* variant of toPaddedHexString: one zero fewer than the width asks for
toPaddedHexString_shortPad(n, padTo) ==
  LET hexStr == toString16(n)
  IN repeatZero(Max(0, padTo - Len(hexStr) - 1)) \o hexStr

toPaddedHexString(n, padTo) ==
  LET hexStr == toString16(n)
  IN repeatZero(Max(0, padTo - Len(hexStr))) \o hexStr

Base64Chars == <<"A","B","C","D","E","F","G","H","I","J","K","L","M","N","O","P","Q","R","S","T","U","V","W","X","Y","Z","a","b","c","d","e","f","g","h","i","j","k","l","m","n","o","p","q","r","s","t","u","v","w","x","y","z","0","1","2","3","4","5","6","7","8","9","+","/">>

\* the byte of a printable ASCII character
charCode(c) == (CHOOSE i \in 1..Len(Ascii) : Ascii[i] = c) + 31

\* Buffer.from(str): the bytes of a string of printable ASCII characters
bufferFrom(str) == [i \in 1..Len(str) |-> charCode(str[i])]

\* buf.toString('base64')
RECURSIVE toBase64(_)
toBase64(buf) ==
  IF Len(buf) = 0 THEN <<>>
  ELSE
  LET b1 == buf[1]
      b2 == IF Len(buf) >= 2 THEN buf[2] ELSE 0
      b3 == IF Len(buf) >= 3 THEN buf[3] ELSE 0
      n == (b1 * 256 + b2) * 256 + b3
      c1 == Base64Chars[(n \div 262144) + 1]
      c2 == Base64Chars[((n \div 4096) % 64) + 1]
      c3 == IF Len(buf) >= 2 THEN Base64Chars[((n \div 64) % 64) + 1] ELSE "="
      c4 == IF Len(buf) >= 3 THEN Base64Chars[(n % 64) + 1] ELSE "="
  IN <<c1, c2, c3, c4>> \o toBase64(substringFrom(buf, 3))

\* variant of createBasicAuthenticationString: no colon between the two
createBasicAuthenticationString_noColon(user, pass) ==
  <<"B","a","s","i","c"," ">> \o toBase64(bufferFrom(Template(user) \o Template(pass)))

createBasicAuthenticationString(user, pass) ==
  <<"B","a","s","i","c"," ">>
    \o toBase64(bufferFrom(Template(user) \o <<":">> \o Template(pass)))

(***************************************************************************)
(* createDigestResponse and createDigestAuthenticationString               *)
(***************************************************************************)
\* ha1 of createDigestResponse; it stays undefined for an algorithm that is
\* neither unset, MD5 nor MD5-sess
digestHA1(info, user, pass, cnonce) ==
  LET algorithm == getProp(info, K_algorithm)
      a1 == Template(user) \o <<":">> \o Template(getProp(info, K_realm))
              \o <<":">> \o Template(pass)
  IN IF notSet(algorithm) \/ algorithm = S_MD5 THEN md5(a1)
     ELSE IF algorithm = S_MD5_sess
     THEN md5(a1) \o <<":">> \o Template(getProp(info, K_nonce))
            \o <<":">> \o Template(cnonce)
     ELSE Undefined

\* variant of digestHA2: the body is left out of the auth-int hash
digestHA2_noBody(method, uri, qopType, body) ==
  IF notSet(qopType) \/ qopType = S_auth \/ qopType = S_auth_int
  THEN md5(Template(method) \o <<":">> \o Template(uri))
  ELSE Undefined

\* ha2 of createDigestResponse; an unset body is the empty buffer
digestHA2(method, uri, qopType, body) ==
  LET bytes == IF notSet(body) THEN <<>> ELSE body
  IN IF notSet(qopType) \/ qopType = S_auth
     THEN md5(Template(method) \o <<":">> \o Template(uri))
     ELSE IF qopType = S_auth_int
     THEN md5(Template(method) \o <<":">> \o Template(uri) \o <<":">> \o md5(bytes))
     ELSE Undefined

\* variant of createDigestResponse: the response of the legacy mode whatever
\* the qop
createDigestResponse_noCount(info, user, pass, method, uri, cnonce, count, qopType, body) ==
  LET ha1 == digestHA1(info, user, pass, cnonce)
      ha2 == digestHA2(method, uri, qopType, body)
      nonce == getProp(info, K_nonce)
  IN IF (qopType = S_auth \/ qopType = S_auth_int) /\ notSet(nonce)
     THEN Throw(NonceUnsetKind, Undefined)
     ELSE IF (qopType = S_auth \/ qopType = S_auth_int) /\ notSet(cnonce)
     THEN Throw(CnonceUnsetKind, Undefined)
     ELSE Ok(md5(Template(ha1) \o <<":">> \o Template(nonce) \o <<":">> \o Template(ha2)))

\* variant of createDigestResponse: nonce and cnonce are not checked
createDigestResponse_unchecked(info, user, pass, method, uri, cnonce, count, qopType, body) ==
  LET ha1 == digestHA1(info, user, pass, cnonce)
      ha2 == digestHA2(method, uri, qopType, body)
      nonce == getProp(info, K_nonce)
  IN IF qopType = S_auth \/ qopType = S_auth_int
     THEN Ok(md5(Template(ha1) \o <<":">> \o Template(nonce) \o <<":">>
                 \o toPaddedHexString(count, 8) \o <<":">> \o Template(cnonce)
                 \o <<":">> \o qopType \o <<":">> \o Template(ha2)))
     ELSE Ok(md5(Template(ha1) \o <<":">> \o Template(nonce) \o <<":">> \o Template(ha2)))

createDigestResponse(info, user, pass, method, uri, cnonce, count, qopType, body) ==
  LET ha1 == digestHA1(info, user, pass, cnonce)
      ha2 == digestHA2(method, uri, qopType, body)
      nonce == getProp(info, K_nonce)
  IN IF qopType = S_auth \/ qopType = S_auth_int
     THEN IF notSet(nonce) THEN Throw(NonceUnsetKind, Undefined)
          ELSE IF notSet(cnonce) THEN Throw(CnonceUnsetKind, Undefined)
          ELSE Ok(md5(Template(ha1) \o <<":">> \o nonce \o <<":">>
                      \o toPaddedHexString(count, 8) \o <<":">> \o cnonce
                      \o <<":">> \o qopType \o <<":">> \o Template(ha2)))
     ELSE Ok(md5(Template(ha1) \o <<":">> \o Template(nonce) \o <<":">> \o Template(ha2)))

\* variant of resolveQop: a list with no supported token is taken as no qop
resolveQop_lenient(info) ==
  LET qop == getProp(info, K_qop)
      qops == IF isSet(qop) THEN split(qop, ",") ELSE <<>>
  IN IF includes(qops, S_auth_int) THEN Ok(S_auth_int)
     ELSE IF includes(qops, S_auth) THEN Ok(S_auth)
     ELSE Ok(Undefined)

\* the qopType chosen from authInfo.qop: Ok(Undefined) is the null of the
\* source (no qop attribute)
resolveQop(info) ==
  LET qop == getProp(info, K_qop)
      qops == IF isSet(qop) THEN split(qop, ",") ELSE <<>>
  IN IF includes(qops, S_auth_int) THEN Ok(S_auth_int)
     ELSE IF includes(qops, S_auth) THEN Ok(S_auth)
     ELSE IF Len(qops) = 0 THEN Ok(Undefined)
     ELSE Throw(UnsupportedQopKind, qops)

\* variant of createDigestAuthenticationString: the qop, nc and cnonce fields
\* are written before opaque, and written whether or not a qop was resolved
createDigestAuthenticationString_qopFirst(info, user, pass, method, uri, cnonce, count, body) ==
  LET qopType == resolveQop(info)
  IN IF qopType.kind # "ok" THEN qopType
     ELSE
     LET response == createDigestResponse(info, user, pass, method, uri,
                                          cnonce, count, qopType.val, body)
     IN IF response.kind # "ok" THEN response
        ELSE
        LET head == <<"D","i","g","e","s","t"," ","u","s","e","r","n","a","m","e","=","\"">>
                      \o Template(user)
                      \o <<"\"",","," ","r","e","a","l","m","=","\"">>
                      \o Template(getProp(info, K_realm))
                      \o <<"\"",","," ","n","o","n","c","e","=","\"">>
                      \o Template(getProp(info, K_nonce))
                      \o <<"\"",","," ","u","r","i","=","\"">>
                      \o Template(uri)
                      \o <<"\"",","," ","r","e","s","p","o","n","s","e","=","\"">>
                      \o response.val \o <<"\"">>
            opaque == IF isSet(getProp(info, K_opaque))
                      THEN <<","," ","o","p","a","q","u","e","=","\"">>
                             \o getProp(info, K_opaque) \o <<"\"">>
                      ELSE <<>>
            qopPart == <<","," ","q","o","p","=">> \o Template(qopType.val)
                         \o <<","," ","n","c","=">> \o toPaddedHexString(count, 8)
                         \o <<","," ","c","n","o","n","c","e","=","\"">>
                         \o Template(cnonce) \o <<"\"">>
        IN Ok(head \o qopPart \o opaque)

createDigestAuthenticationString(info, user, pass, method, uri, cnonce, count, body) ==
  LET qopType == resolveQop(info)
  IN IF qopType.kind # "ok" THEN qopType
     ELSE
     LET response == createDigestResponse(info, user, pass, method, uri,
                                          cnonce, count, qopType.val, body)
     IN IF response.kind # "ok" THEN response
        ELSE
        LET head == <<"D","i","g","e","s","t"," ","u","s","e","r","n","a","m","e","=","\"">>
                      \o Template(user)
                      \o <<"\"",","," ","r","e","a","l","m","=","\"">>
                      \o Template(getProp(info, K_realm))
                      \o <<"\"",","," ","n","o","n","c","e","=","\"">>
                      \o Template(getProp(info, K_nonce))
                      \o <<"\"",","," ","u","r","i","=","\"">>
                      \o Template(uri)
                      \o <<"\"",","," ","r","e","s","p","o","n","s","e","=","\"">>
                      \o response.val \o <<"\"">>
            opaque == IF isSet(getProp(info, K_opaque))
                      THEN <<","," ","o","p","a","q","u","e","=","\"">>
                             \o getProp(info, K_opaque) \o <<"\"">>
                      ELSE <<>>
            qopPart == IF isSet(qopType.val)
                       THEN <<","," ","q","o","p","=">> \o qopType.val
                              \o <<","," ","n","c","=">> \o toPaddedHexString(count, 8)
                              \o <<","," ","c","n","o","n","c","e","=","\"">>
                              \o Template(cnonce) \o <<"\"">>
                       ELSE <<>>
        IN Ok(head \o opaque \o qopPart)

(***************************************************************************)
(* Inputs                                                                  *)
(***************************************************************************)
\* Digest realm="r", nonce="a", qop="auth"
HdrDigestAuth == <<"D","i","g","e","s","t"," ","r","e","a","l","m","=","\"","r","\"",","," ","n","o","n","c","e","=","\"","a","\"",","," ","q","o","p","=","\"","a","u","t","h","\"">>

\* Digest realm="r", nonce="b", qop="auth,auth-int", opaque="o", stale=TRUE
HdrDigestAuthInt == <<"D","i","g","e","s","t"," ","r","e","a","l","m","=","\"","r","\"",","," ","n","o","n","c","e","=","\"","b","\"",","," ","q","o","p","=","\"","a","u","t","h",",","a","u","t","h","-","i","n","t","\"",","," ","o","p","a","q","u","e","=","\"","o","\"",","," ","s","t","a","l","e","=","T","R","U","E">>

\* Digest realm="r", nonce="c", stale="FALSE"
HdrDigestLegacy == <<"D","i","g","e","s","t"," ","r","e","a","l","m","=","\"","r","\"",","," ","n","o","n","c","e","=","\"","c","\"",","," ","s","t","a","l","e","=","\"","F","A","L","S","E","\"">>

\* Digest realm="r", nonce="d", qop="auth", algorithm=MD5-sess
HdrDigestSess == <<"D","i","g","e","s","t"," ","r","e","a","l","m","=","\"","r","\"",","," ","n","o","n","c","e","=","\"","d","\"",","," ","q","o","p","=","\"","a","u","t","h","\"",","," ","a","l","g","o","r","i","t","h","m","=","M","D","5","-","s","e","s","s">>

\* Digest realm="r", nonce="e", qop="auth", algorithm=SHA-256
HdrDigestSha256 == <<"D","i","g","e","s","t"," ","r","e","a","l","m","=","\"","r","\"",","," ","n","o","n","c","e","=","\"","e","\"",","," ","q","o","p","=","\"","a","u","t","h","\"",","," ","a","l","g","o","r","i","t","h","m","=","S","H","A","-","2","5","6">>

\* Basic realm="r"
HdrBasic == <<"B","a","s","i","c"," ","r","e","a","l","m","=","\"","r","\"">>

\* NTLM realm="r"
HdrNtlm == <<"N","T","L","M"," ","r","e","a","l","m","=","\"","r","\"">>

\* Negotiate realm="s"
HdrNegotiate == <<"N","e","g","o","t","i","a","t","e"," ","r","e","a","l","m","=","\"","s","\"">>

\* NTLM
HdrBareScheme == <<"N","T","L","M">>

\* Digest realm="r", nonce="a", qop="auth", Basic realm="s"
HdrDigestThenBasic == <<"D","i","g","e","s","t"," ","r","e","a","l","m","=","\"","r","\"",","," ","n","o","n","c","e","=","\"","a","\"",","," ","q","o","p","=","\"","a","u","t","h","\"",","," ","B","a","s","i","c"," ","r","e","a","l","m","=","\"","s","\"">>

\* NTLM realm="r", Negotiate realm="s"
HdrNtlmThenNegotiate == <<"N","T","L","M"," ","r","e","a","l","m","=","\"","r","\"",","," ","N","e","g","o","t","i","a","t","e"," ","r","e","a","l","m","=","\"","s","\"">>

\* Digest realm="r", nonce="e", qop="auth, auth-int"
HdrQopSpaced == <<"D","i","g","e","s","t"," ","r","e","a","l","m","=","\"","r","\"",","," ","n","o","n","c","e","=","\"","e","\"",","," ","q","o","p","=","\"","a","u","t","h",","," ","a","u","t","h","-","i","n","t","\"">>

\* Digest realm="r", nonce="f", qop="auth-int,auth"
HdrQopIntFirst == <<"D","i","g","e","s","t"," ","r","e","a","l","m","=","\"","r","\"",","," ","n","o","n","c","e","=","\"","f","\"",","," ","q","o","p","=","\"","a","u","t","h","-","i","n","t",",","a","u","t","h","\"">>

\* Digest realm="r", nonce="g", qop="auth-conf"
HdrQopUnsupported == <<"D","i","g","e","s","t"," ","r","e","a","l","m","=","\"","r","\"",","," ","n","o","n","c","e","=","\"","g","\"",","," ","q","o","p","=","\"","a","u","t","h","-","c","o","n","f","\"">>

\* Digest realm="r", nonce
HdrTrailingToken == <<"D","i","g","e","s","t"," ","r","e","a","l","m","=","\"","r","\"",","," ","n","o","n","c","e">>

\* Digest realm="r
HdrUnterminated == <<"D","i","g","e","s","t"," ","r","e","a","l","m","=","\"","r">>

\* Digest realm="a\"b", nonce="n"
HdrEscapedQuote == <<"D","i","g","e","s","t"," ","r","e","a","l","m","=","\"","a","\\","\"","b","\"",","," ","n","o","n","c","e","=","\"","n","\"">>

\* Digest realm="r", qop="auth"
HdrDigestNoNonce == <<"D","i","g","e","s","t"," ","r","e","a","l","m","=","\"","r","\"",","," ","q","o","p","=","\"","a","u","t","h","\"">>

\* Digest realm="r", algorithm=MD5, nonce="h"
HdrBareMiddle == <<"D","i","g","e","s","t"," ","r","e","a","l","m","=","\"","r","\"",","," ","a","l","g","o","r","i","t","h","m","=","M","D","5",","," ","n","o","n","c","e","=","\"","h","\"">>

HeaderValues ==
  { HdrDigestAuth, HdrDigestAuthInt, HdrDigestLegacy, HdrDigestSess, HdrBasic,
    HdrNtlm, HdrBareScheme, HdrDigestThenBasic, HdrNtlmThenNegotiate,
    HdrDigestNoNonce }

HeaderLists ==
  { <<HdrBasic, HdrDigestAuth>>, <<HdrDigestAuthInt, HdrBasic>>,
    <<HdrNtlm, HdrBasic>>, <<HdrNtlm, HdrNegotiate>>,
    <<HdrDigestAuth, HdrBareScheme>>, <<HdrDigestAuthInt, HdrDigestLegacy>> }

\* the wwwAuthenticate argument: one string, or an array of strings
WwwAuthenticateInputs ==
  { [isArray |-> FALSE, value |-> h] : h \in HeaderValues }
    \cup { [isArray |-> TRUE, value |-> l] : l \in HeaderLists }

\* what random.createRandHexStringSync(16) may return
RandHexStrings ==
  { <<"0","A","4","F","1","1","3","B","0","A","4","F","1","1","3","B">>,
    <<"9","C","0","F","F","E","E","1","9","C","0","F","F","E","E","1">> }

Usernames == { <<"M","u","f","a","s","a">> }

Passwords == { <<"p","w">>, <<"a",":","b">> }

Methods == { <<"G","E","T">>, <<"P","O","S","T">> }

Uris == { <<"/">>, <<"/","a">> }

Bodies == { Undefined, <<"x">> }

\* the <<method, uri, body>> a session is asked a header for
Requests ==
  { <<<<"G","E","T">>, <<"/">>, Undefined>>,
    <<<<"G","E","T">>, <<"/">>, <<"x">>>>,
    <<<<"P","O","S","T">>, <<"/","a">>, <<"x">>>> }

\* the nonce count up to which the model follows a session
MaxNonceCount == 3

(***************************************************************************)
(* HttpAuthenticator                                                       *)
(***************************************************************************)
vars == <<nonceCount, authInfo, username, password, clientNonce, lastCall,
          lastUsedCount, sinceInstall, call, timers, backoffTimer, now, waits,
          backoffCall, queue, deque, queueCall, pool, poolObjects, poolCall, retry>>

session == <<nonceCount, authInfo, username, password, clientNonce, lastCall,
             lastUsedCount, sinceInstall>>

Snapshot ==
  [nonceCount |-> nonceCount, authInfo |-> authInfo, username |-> username,
   password |-> password, clientNonce |-> clientNonce,
   lastUsedCount |-> lastUsedCount]

\* no exported function has been called
NoCall == [fn |-> "none", args |-> <<>>, done |-> TRUE, result |-> Ok(Undefined)]

\* new HttpAuthenticator()
InitSession ==
  /\ nonceCount = 1
  /\ authInfo = <<>>
  /\ username = Undefined
  /\ password = Undefined
  /\ clientNonce \in RandHexStrings
  /\ lastCall = [op |-> "constructor", args |-> <<>>, result |-> Ok(Undefined),
                 before |-> [nonceCount |-> 1, authInfo |-> <<>>,
                             username |-> Undefined, password |-> Undefined,
                             clientNonce |-> clientNonce, lastUsedCount |-> 0]]
  /\ lastUsedCount = 0
  /\ sinceInstall = [open |-> FALSE, nc |-> <<>>, cnonce |-> <<>>]

backoff == <<backoffTimer, now, waits, backoffCall>>

queues == <<queue, deque, queueCall>>

pools == <<pool, poolObjects, poolCall>>

\* the objects of the other classes
others == <<backoff, queues, pools, retry>>

\* no Timer has been created
NotCreated ==
  [created |-> FALSE, timeout |-> "none", resolved |-> FALSE,
   finishedPromise |-> "none", awaited |-> "none", first |-> "none", last |-> "none"]

Timers == {"t1", "t2"}

NoTimers == [t \in Timers |-> NotCreated]

\* the instants at which the model reads the clock, in milliseconds: whole
\* seconds, so that Date.now() / 1000 is a whole number
Instants ==
  { 100000000 + ms : ms \in {0, 2000, 31000, 60059000} }

\* new BackoffTimer(); a timeout or timeoutResolve of 0 is one that is not set
\* (undefined or null), n > 0 is the one the n-th wait() made
NewBackoffTimer ==
  [iteration |-> 0, lastWaitUtcTimeMs |-> 0, timeout |-> 0, timeoutResolve |-> 0]

InitBackoff ==
  /\ backoffTimer = NewBackoffTimer
  /\ now = 100000000
  /\ waits = <<>>
  /\ backoffCall = [op |-> "constructor", result |-> FALSE, marks |-> 0,
                     markedAt |-> 0, consecutive |-> TRUE, elapsed |-> 0,
                     pending |-> {}, before |-> NewBackoffTimer]

\* new Queue(): head and tail are not set (0), no node is allocated
EmptyQueue == [head |-> 0, tail |-> 0, nodes |-> <<>>]

InitQueue ==
  /\ queue = EmptyQueue
  /\ deque = <<>>
  /\ queueCall = [op |-> "constructor", result |-> <<>>, visited |-> <<>>,
                   before |-> <<>>]

\* new Pool(createElement)
InitPool ==
  /\ pool = [queue |-> EmptyQueue, created |-> 0]
  /\ poolObjects = <<>>
  /\ poolCall = [op |-> "constructor", item |-> 0, created |-> FALSE,
                  waiting |-> <<>>, released |-> <<>>]

\* runWithRetry has not been called
\* runWithRetry has not been called.  error and result hold the number of the
\* doTask() call whose error or result they are, 0 while they are not set
NotRunning ==
  [pc |-> "idle", args |-> <<>>, retryCount |-> 0, retryIntervalInSeconds |-> 0,
   i |-> 0, error |-> 0, result |-> 0, tasks |-> <<>>,
   promise |-> [state |-> "none", of |-> 0]]

InitOthers == InitBackoff /\ InitQueue /\ InitPool /\ retry = NotRunning

Init == InitSession /\ call = NoCall /\ timers = NoTimers /\ InitOthers

\* a call that is neither a successful setWwwAuthenticate nor a
\* getAuthorizationHeader ends the run of calls that sinceInstall records
Interrupted == [sinceInstall EXCEPT !.open = FALSE]

\* variant of setCredentials: the nonce count starts over
setCredentials_reset(u, p) ==
  /\ username' = u
  /\ password' = p
  /\ nonceCount' = 1
  /\ lastCall' = [op |-> "setCredentials", args |-> <<u, p>>,
                  result |-> Ok(Undefined), before |-> Snapshot]
  /\ sinceInstall' = Interrupted
  /\ UNCHANGED <<authInfo, clientNonce, lastUsedCount, call, timers, others>>

setCredentials(u, p) ==
  /\ username' = u
  /\ password' = p
  /\ lastCall' = [op |-> "setCredentials", args |-> <<u, p>>,
                  result |-> Ok(Undefined), before |-> Snapshot]
  /\ sinceInstall' = Interrupted
  /\ UNCHANGED <<nonceCount, authInfo, clientNonce, lastUsedCount, call, timers, others>>

\* the value isValid() returns
isValid == authInfo # <<>> /\ isSet(username) /\ isSet(password)

isValidCall ==
  /\ lastCall' = [op |-> "isValid", args |-> <<>>, result |-> Ok(isValid),
                  before |-> Snapshot]
  /\ sinceInstall' = Interrupted
  /\ UNCHANGED <<nonceCount, authInfo, username, password, clientNonce,
                 lastUsedCount, call, timers, others>>

\* variant of postIncrement: ++this.nonceCount, the count raised before it
\* is passed on
preIncrement(n) == [value |-> n + 1, stored |-> n + 1]

\* this.nonceCount++: the value of the expression and the value stored
postIncrement(n) == [value |-> n, stored |-> n + 1]

\* getAuthorizationHeader once this.authInfo is known to be set: the result,
\* the nonceCount it leaves and the count it passed to the digest computation
\* (0: none passed)
headerForChallenge(method, uri, body) ==
  IF getProp(authInfo[1], K_authType) = S_digest
  THEN LET inc == postIncrement(nonceCount)
       IN [result |-> createDigestAuthenticationString(authInfo[1], username,
                        password, method, uri, clientNonce, inc.value, body),
           nonceCount |-> inc.stored, passed |-> inc.value]
  ELSE IF getProp(authInfo[1], K_authType) = S_basic
  THEN [result |-> Ok(createBasicAuthenticationString(username, password)),
        nonceCount |-> nonceCount, passed |-> 0]
  ELSE [result |-> Throw(InternalErrorKind, getProp(authInfo[1], K_authType)),
        nonceCount |-> nonceCount, passed |-> 0]

\* variant of getAuthorizationHeaderStep: the count is raised before the
\* check for a challenge
getAuthorizationHeaderStep_countFirst(method, uri, body) ==
  IF authInfo = <<>>
  THEN [result |-> Throw(PreconditionKind, Undefined), nonceCount |-> nonceCount + 1,
        passed |-> 0]
  ELSE headerForChallenge(method, uri, body)

getAuthorizationHeaderStep(method, uri, body) ==
  IF authInfo = <<>>
  THEN [result |-> Throw(PreconditionKind, Undefined), nonceCount |-> nonceCount,
        passed |-> 0]
  ELSE headerForChallenge(method, uri, body)

\* the text between the first `sub` of s and the next comma, <<>> when s has
\* no `sub`
fieldAfter(s, sub) ==
  LET at(i) == SubSeq(s, i, i + Len(sub) - 1) = sub
      starts == 1..(Len(s) - Len(sub) + 1)
  IN IF \E i \in starts : at(i)
     THEN LET first == CHOOSE i \in starts : at(i) /\ \A j \in 1..(i - 1) : ~at(j)
              rest == substringFrom(s, first + Len(sub) - 1)
              comma == indexOf(rest, ",")
          IN substring(rest, 0, IF comma < 0 THEN Len(rest) ELSE comma)
     ELSE <<>>

\* the nc field of a returned header, <<>> when the call threw or the header
\* has none
ncField(result) ==
  IF result.kind = "ok" THEN fieldAfter(result.val, <<","," ","n","c","=">>) ELSE <<>>

getAuthorizationHeader(method, uri, body) ==
  LET step == getAuthorizationHeaderStep(method, uri, body)
  IN /\ step.nonceCount <= MaxNonceCount
     /\ nonceCount' = step.nonceCount
     /\ lastCall' = [op |-> "getAuthorizationHeader", args |-> <<method, uri, body>>,
                     result |-> step.result, before |-> Snapshot]
     /\ lastUsedCount' = IF step.passed > 0 THEN step.passed ELSE lastUsedCount
     /\ sinceInstall' = IF sinceInstall.open /\ Len(sinceInstall.nc) < 2
                        THEN [sinceInstall EXCEPT !.nc = Append(@, ncField(step.result))]
                        ELSE sinceInstall
     /\ UNCHANGED <<authInfo, username, password, clientNonce, call, timers, others>>

\* variant of previousFailedRequestWasStaleResult: stale compared without
\* toLowerCase()
previousFailedRequestWasStaleResult_caseSensitive ==
  IF authInfo = <<>> THEN Throw(TypeErrorKind, Undefined)
  ELSE LET stale == getProp(authInfo[1], K_stale)
       IN Ok(isSet(stale) /\ stale = S_true)

\* reading this.authInfo.stale while this.authInfo is undefined is a TypeError
\* variant of previousFailedRequestWasStaleResult: false when no challenge is
\* installed
previousFailedRequestWasStaleResult_falseWhenUnset ==
  IF authInfo = <<>> THEN Ok(FALSE)
  ELSE LET stale == getProp(authInfo[1], K_stale)
       IN Ok(isSet(stale) /\ toLowerCase(stale) = S_true)

previousFailedRequestWasStaleResult ==
  IF authInfo = <<>> THEN Throw(TypeErrorKind, Undefined)
  ELSE LET stale == getProp(authInfo[1], K_stale)
       IN Ok(isSet(stale) /\ toLowerCase(stale) = S_true)

previousFailedRequestWasStale ==
  /\ lastCall' = [op |-> "previousFailedRequestWasStale", args |-> <<>>,
                  result |-> previousFailedRequestWasStaleResult, before |-> Snapshot]
  /\ sinceInstall' = Interrupted
  /\ UNCHANGED <<nonceCount, authInfo, username, password, clientNonce,
                 lastUsedCount, call, timers, others>>

\* variant of setEntry: a key that is already in the map keeps its object
setEntry_keepFirst(authInfos, key, obj) ==
  IF \E i \in 1..Len(authInfos) : authInfos[i][1] = key
  THEN authInfos
  ELSE Append(authInfos, <<key, obj>>)

\* authInfos is the sequence of the <<key, object>> pairs of the map, in
\* insertion order; the key of an undefined authType is the text undefined
setEntry(authInfos, key, obj) ==
  IF \E i \in 1..Len(authInfos) : authInfos[i][1] = key
  THEN [i \in 1..Len(authInfos) |->
          IF authInfos[i][1] = key THEN <<key, obj>> ELSE authInfos[i]]
  ELSE Append(authInfos, <<key, obj>>)

\* authInfos[key]: <<>> when unset, <<obj>> otherwise
getEntry(authInfos, key) ==
  IF \E i \in 1..Len(authInfos) : authInfos[i][1] = key
  THEN <<authInfos[CHOOSE i \in 1..Len(authInfos) : authInfos[i][1] = key][2]>>
  ELSE <<>>

\* the keys of authInfos, as the for..in loop pushes them
keysOf(authInfos) == [i \in 1..Len(authInfos) |-> authInfos[i][1]]

RECURSIVE parseEach(_, _)
parseEach(values, authInfos) ==
  IF Len(values) = 0 THEN Ok(authInfos)
  ELSE LET parsed == parseWwwAuthenticateHeader(Head(values))
       IN IF parsed.kind # "ok" THEN parsed
          ELSE parseEach(Tail(values),
                         setEntry(authInfos, Template(getProp(parsed.val, K_authType)),
                                  parsed.val))

\* the authInfos map built from the wwwAuthenticate argument
collectAuthInfos(wwwAuthenticate) ==
  IF wwwAuthenticate.isArray THEN parseEach(wwwAuthenticate.value, <<>>)
  ELSE parseEach(<<wwwAuthenticate.value>>, <<>>)

\* variant of selectAuthInfo: with neither digest nor basic, the first
\* challenge offered is chosen
selectAuthInfo_anyScheme(authInfos) ==
  IF getEntry(authInfos, S_digest) # <<>> THEN Ok(getEntry(authInfos, S_digest))
  ELSE IF getEntry(authInfos, S_basic) # <<>> THEN Ok(getEntry(authInfos, S_basic))
  ELSE IF Len(authInfos) > 0 THEN Ok(<<authInfos[1][2]>>)
  ELSE Throw(UnsupportedSchemeKind, keysOf(authInfos))

\* the challenge chosen from authInfos, or the error that lists its keys
selectAuthInfo(authInfos) ==
  IF getEntry(authInfos, S_digest) # <<>> THEN Ok(getEntry(authInfos, S_digest))
  ELSE IF getEntry(authInfos, S_basic) # <<>> THEN Ok(getEntry(authInfos, S_basic))
  ELSE Throw(UnsupportedSchemeKind, keysOf(authInfos))

\* variant of resetNonceState: the count is not reset
resetNonceState_keepCount(rand) == [nonceCount |-> nonceCount, clientNonce |-> rand]

\* the first two statements of setWwwAuthenticate
resetNonceState(rand) == [nonceCount |-> 1, clientNonce |-> rand]

\* the result of setWwwAuthenticate: Ok(<<obj>>) installs obj
setWwwAuthenticateResult(wwwAuthenticate) ==
  LET authInfos == collectAuthInfos(wwwAuthenticate)
  IN IF authInfos.kind # "ok" THEN authInfos ELSE selectAuthInfo(authInfos.val)

\* setWwwAuthenticateResult on the inputs of the model, computed once
ResultTable == { <<w, setWwwAuthenticateResult(w)>> : w \in WwwAuthenticateInputs }

ResultOfInput(w) == (CHOOSE t \in ResultTable : t[1] = w)[2]

\* variant of setWwwAuthenticate: a call that fails leaves no challenge
setWwwAuthenticate_clearOnFailure(wwwAuthenticate, rand) ==
  LET reset == resetNonceState(rand)
      result == ResultOfInput(wwwAuthenticate)
      installed == result.kind = "ok"
  IN /\ nonceCount' = reset.nonceCount
     /\ clientNonce' = reset.clientNonce
     /\ authInfo' = IF installed THEN result.val ELSE <<>>
     /\ lastCall' = [op |-> "setWwwAuthenticate",
                     args |-> [wwwAuthenticate |-> wwwAuthenticate, drawn |-> <<rand>>],
                     result |-> IF installed THEN Ok(Undefined) ELSE result,
                     before |-> Snapshot]
     /\ lastUsedCount' = IF installed THEN 0 ELSE lastUsedCount
     /\ sinceInstall' = IF installed THEN [open |-> TRUE, nc |-> <<>>, cnonce |-> rand]
                        ELSE Interrupted
     /\ UNCHANGED <<username, password, call, timers, others>>

setWwwAuthenticate(wwwAuthenticate, rand) ==
  LET reset == resetNonceState(rand)
      result == ResultOfInput(wwwAuthenticate)
      installed == result.kind = "ok"
  IN /\ nonceCount' = reset.nonceCount
     /\ clientNonce' = reset.clientNonce
     /\ authInfo' = IF installed THEN result.val ELSE authInfo
     /\ lastCall' = [op |-> "setWwwAuthenticate",
                     args |-> [wwwAuthenticate |-> wwwAuthenticate, drawn |-> <<rand>>],
                     result |-> IF installed THEN Ok(Undefined) ELSE result,
                     before |-> Snapshot]
     /\ lastUsedCount' = IF installed THEN 0 ELSE lastUsedCount
     /\ sinceInstall' = IF installed THEN [open |-> TRUE, nc |-> <<>>, cnonce |-> rand]
                        ELSE Interrupted
     /\ UNCHANGED <<username, password, call, timers, others>>

Next ==
  \/ \E u \in Usernames, p \in Passwords : setCredentials(u, p)
  \/ isValidCall
  \/ \E r \in Requests : getAuthorizationHeader(r[1], r[2], r[3])
  \/ previousFailedRequestWasStale
  \/ \E w \in WwwAuthenticateInputs, r \in RandHexStrings : setWwwAuthenticate(w, r)

Spec == Init /\ [][Next]_vars

(***************************************************************************)
(* The exported functions, called on their own                             *)
(***************************************************************************)
\* the challenges the Digest headers of the model parse to
AuthInfoObjects ==
  { parseWwwAuthenticateHeader(h).val :
      h \in {HdrDigestAuth, HdrDigestAuthInt, HdrDigestLegacy, HdrDigestSess,
              HdrDigestNoNonce, HdrDigestSha256} }

ClientNonces == RandHexStrings \cup {Undefined}

QopTypes == {S_auth, S_auth_int, Undefined}

getAuthorizeHeaderForWwwAuthenticate(authHeader, user, pass, cnonce, count, method, path, body) ==
  LET authInfos == collectAuthInfos(authHeader)
  IN IF authInfos.kind # "ok" THEN authInfos
     ELSE IF getEntry(authInfos.val, S_digest) # <<>>
     THEN createDigestAuthenticationString(getEntry(authInfos.val, S_digest)[1], user,
                                           pass, method, path, cnonce, count, body)
     ELSE IF getEntry(authInfos.val, S_basic) # <<>>
     THEN Ok(createBasicAuthenticationString(user, pass))
     ELSE Throw(UnsupportedSchemeKind, keysOf(authInfos.val))

\* a call that has been set up (Init draws its arguments) and not yet made
Pending(fn, args) == [fn |-> fn, args |-> args, done |-> FALSE, result |-> Ok(Undefined)]

CreateDigestResponseArgs ==
  [authInfo : AuthInfoObjects, username : Usernames, password : Passwords,
   method : Methods, uri : Uris, clientNonce : ClientNonces,
   nonceCount : 1..MaxNonceCount, qopType : QopTypes, body : Bodies]

GetAuthorizeHeaderArgs ==
  [authHeader : WwwAuthenticateInputs, username : Usernames, password : Passwords,
   clientNonce : RandHexStrings, nonceCount : 1..MaxNonceCount, method : Methods,
   path : Uris, body : Bodies]

\* the challenges createDigestAuthenticationString is called with
DigestChallenges ==
  AuthInfoObjects
    \cup { parseWwwAuthenticateHeader(h).val :
             h \in {HdrQopSpaced, HdrQopIntFirst, HdrQopUnsupported} }

CreateDigestAuthenticationStringArgs ==
  [authInfo : DigestChallenges, username : Usernames, password : Passwords,
   method : Methods, uri : Uris, clientNonce : RandHexStrings,
   nonceCount : 1..MaxNonceCount, body : Bodies]

\* the header strings parseWwwAuthenticateHeader is called with
ParseInputs ==
  HeaderValues
    \cup { HdrNegotiate, HdrQopSpaced, HdrQopIntFirst, HdrQopUnsupported,
           HdrTrailingToken, HdrUnterminated, HdrEscapedQuote, HdrBareMiddle }

ParseArgs == [headerValue : ParseInputs]

\* the numbers toPaddedHexString is called with: the ends of each number of
\* hex digits up to 8, as far as the integers of the model reach
HexInputs ==
  { 0, 1, 9, 10, 15, 16, 255, 256, 4095, 4096, 65535, 65536, 1048575, 1048576,
    16777215, 16777216, 268435455, 268435456, 305419896, 2147483647 }

PadWidths == { 0, 1, 4, 8 }

ToPaddedHexStringArgs == [n : HexInputs, padTo : PadWidths]

InitFn ==
  /\ InitSession
  /\ timers = NoTimers
  /\ InitOthers
  /\ call \in { Pending("createDigestResponse", a) : a \in CreateDigestResponseArgs }
        \cup { Pending("getAuthorizeHeaderForWwwAuthenticate", a) :
                 a \in GetAuthorizeHeaderArgs }
        \cup { Pending("createDigestAuthenticationString", a) :
                 a \in CreateDigestAuthenticationStringArgs }
        \cup { Pending("parseWwwAuthenticateHeader", a) : a \in ParseArgs }
        \cup { Pending("toPaddedHexString", a) : a \in ToPaddedHexStringArgs }

callCreateDigestResponse ==
  /\ call.fn = "createDigestResponse" /\ ~call.done
  /\ call' = [call EXCEPT !.done = TRUE,
                !.result = createDigestResponse(call.args.authInfo, call.args.username,
                             call.args.password, call.args.method, call.args.uri,
                             call.args.clientNonce, call.args.nonceCount,
                             call.args.qopType, call.args.body)]
  /\ UNCHANGED <<session, timers, others>>

callGetAuthorizeHeaderForWwwAuthenticate ==
  /\ call.fn = "getAuthorizeHeaderForWwwAuthenticate" /\ ~call.done
  /\ call' = [call EXCEPT !.done = TRUE,
                !.result = getAuthorizeHeaderForWwwAuthenticate(call.args.authHeader,
                             call.args.username, call.args.password,
                             call.args.clientNonce, call.args.nonceCount,
                             call.args.method, call.args.path, call.args.body)]
  /\ UNCHANGED <<session, timers, others>>

callCreateDigestAuthenticationString ==
  /\ call.fn = "createDigestAuthenticationString" /\ ~call.done
  /\ call' = [call EXCEPT !.done = TRUE,
                !.result = createDigestAuthenticationString(call.args.authInfo,
                             call.args.username, call.args.password, call.args.method,
                             call.args.uri, call.args.clientNonce, call.args.nonceCount,
                             call.args.body)]
  /\ UNCHANGED <<session, timers, others>>

callParseWwwAuthenticateHeader ==
  /\ call.fn = "parseWwwAuthenticateHeader" /\ ~call.done
  /\ call' = [call EXCEPT !.done = TRUE,
                !.result = parseWwwAuthenticateHeader(call.args.headerValue)]
  /\ UNCHANGED <<session, timers, others>>

callToPaddedHexString ==
  /\ call.fn = "toPaddedHexString" /\ ~call.done
  /\ call' = [call EXCEPT !.done = TRUE,
                !.result = Ok(toPaddedHexString(call.args.n, call.args.padTo))]
  /\ UNCHANGED <<session, timers, others>>

NextFn ==
  \/ callCreateDigestResponse
  \/ callGetAuthorizeHeaderForWwwAuthenticate
  \/ callCreateDigestAuthenticationString
  \/ callParseWwwAuthenticateHeader
  \/ callToPaddedHexString

SpecFn == InitFn /\ [][NextFn]_vars

(***************************************************************************)
(* Timer                                                                   *)
(***************************************************************************)
\* variant of resolvePromise: the promise is fulfilled whatever it was
resolvePromise_overwrite(promise) == "fulfilled"

\* variant of resolvePromise: the promise stays as it is
resolvePromise_never(promise) == promise

\* this.resolvePromise(null): a promise is settled once, a second settlement
\* changes nothing
resolvePromise(promise) == IF promise = "pending" THEN "fulfilled" ELSE promise

\* this.rejectPromise(new TimeoutCanceledError())
rejectPromise(promise) == IF promise = "pending" THEN "rejected" ELSE promise

\* what a timer records of the calls made on it: the first of cancel,
\* finishEarly and the timeout to happen, and the last
noted(timer, op) ==
  [timer EXCEPT !.first = IF @ = "none" THEN op ELSE @, !.last = op]

\* createTimer(durationSeconds): the timeout is set and the promise is pending
createTimer(t) ==
  /\ ~timers[t].created
  /\ timers' = [timers EXCEPT ![t] =
                  [created |-> TRUE, timeout |-> "armed", resolved |-> FALSE,
                   finishedPromise |-> "pending", awaited |-> "none",
                   first |-> "none", last |-> "createTimer"]]
  /\ UNCHANGED <<session, call, others>>

\* the callback of setTimeout runs: the duration has elapsed
timeoutCallback(t) ==
  /\ timers[t].timeout = "armed"
  /\ timers' = [timers EXCEPT ![t] =
                  noted([@ EXCEPT !.timeout = "fired",
                                  !.finishedPromise = resolvePromise(@)],
                        "timeout")]
  /\ UNCHANGED <<session, call, others>>

cancel(t) ==
  /\ timers[t].created
  /\ timers' = [timers EXCEPT ![t] =
                  noted(IF @.resolved THEN @
                        ELSE [@ EXCEPT !.resolved = TRUE,
                                       !.finishedPromise = rejectPromise(@)],
                        "cancel")]
  /\ UNCHANGED <<session, call, others>>

finishEarly(t) ==
  /\ timers[t].created
  /\ timers' = [timers EXCEPT ![t] =
                  noted(IF @.resolved THEN @
                        ELSE [@ EXCEPT !.resolved = TRUE,
                                       !.finishedPromise = resolvePromise(@)],
                        "finishEarly")]
  /\ UNCHANGED <<session, call, others>>

\* await timer.waitForTimeout(): the caller waits for finishedPromise
waitForTimeout(t) ==
  /\ timers[t].created
  /\ timers[t].awaited = "none"
  /\ timers' = [timers EXCEPT ![t].awaited = "waiting"]
  /\ UNCHANGED <<session, call, others>>

\* the await ends: it returns when the promise is fulfilled and throws the
\* TimeoutCanceledError when it is rejected
awaitSettles(t) ==
  /\ timers[t].awaited = "waiting"
  /\ timers[t].finishedPromise # "pending"
  /\ timers' = [timers EXCEPT ![t].awaited =
                  IF timers[t].finishedPromise = "fulfilled" THEN "returned"
                  ELSE "TimeoutCanceledError"]
  /\ UNCHANGED <<session, call, others>>

NextTimer ==
  \/ \E t \in Timers : createTimer(t)
  \/ \E t \in Timers : timeoutCallback(t)
  \/ \E t \in Timers : cancel(t)
  \/ \E t \in Timers : finishEarly(t)
  \/ \E t \in Timers : waitForTimeout(t)
  \/ \E t \in Timers : awaitSettles(t)

SpecTimer == Init /\ [][NextTimer]_vars

\* the event loop runs every callback that is due
SpecTimerFair ==
  /\ Init /\ [][NextTimer]_vars
  /\ \A t \in Timers : WF_vars(timeoutCallback(t)) /\ WF_vars(awaitSettles(t))

(***************************************************************************)
(* BackoffTimer                                                            *)
(***************************************************************************)
sleepDurationsInSeconds == <<0, 1, 3, 5, 10, 30>>

millisecondsPerSecond == 1000

microsecondsPerMillisecond == 1000

resetAfterMilliseconds == 60 * millisecondsPerSecond

\* the number of mark() and wait() calls up to which the model follows a
\* BackoffTimer
MaxIteration == 7

\* the number of wait() calls the model makes
MaxWaits == 2

\* const nowUs = Date.now(); const nowMs = nowUs / microsecondsPerMillisecond
nowMs == now \div microsecondsPerMillisecond

\* variant of getWaitMilliseconds: the schedule is read at iteration, not at
\* iteration - 1
getWaitMilliseconds_indexAhead(bt) ==
  LET durationSinceLastWaitMs == nowMs - bt.lastWaitUtcTimeMs
  IN IF bt.timeout = 0 /\ durationSinceLastWaitMs >= resetAfterMilliseconds
     THEN [ms |-> 0, timer |-> [bt EXCEPT !.iteration = 0, !.lastWaitUtcTimeMs = 0]]
     ELSE LET sleepDurationIndex ==
                Min(Max(0, bt.iteration), Len(sleepDurationsInSeconds) - 1)
              expectedTimeBetweenWaitsMs ==
                sleepDurationsInSeconds[sleepDurationIndex + 1] * millisecondsPerSecond
          IN [ms |-> Max(0, expectedTimeBetweenWaitsMs - durationSinceLastWaitMs),
              timer |-> bt]

\* getWaitMilliseconds(): the milliseconds to wait, and the timer's fields as
\* the call leaves them
getWaitMilliseconds(bt) ==
  LET durationSinceLastWaitMs == nowMs - bt.lastWaitUtcTimeMs
  IN IF bt.timeout = 0 /\ durationSinceLastWaitMs >= resetAfterMilliseconds
     THEN [ms |-> 0, timer |-> [bt EXCEPT !.iteration = 0, !.lastWaitUtcTimeMs = 0]]
     ELSE LET sleepDurationIndex ==
                Min(Max(0, bt.iteration - 1), Len(sleepDurationsInSeconds) - 1)
              expectedTimeBetweenWaitsMs ==
                sleepDurationsInSeconds[sleepDurationIndex + 1] * millisecondsPerSecond
          IN [ms |-> Max(0, expectedTimeBetweenWaitsMs - durationSinceLastWaitMs),
              timer |-> bt]

\* the wait() calls whose promise is not resolved
pendingWaits == { n \in 1..Len(waits) : waits[n].promise = "pending" }

\* the calls made so far are marks that follow each other within the reset
\* time; op is the call that is being made
stillConsecutive(op) ==
  /\ backoffCall.consecutive
  /\ op \in {"mark", "willBlock"}
  /\ backoffCall.marks = 0 \/ now - backoffCall.markedAt < resetAfterMilliseconds

\* what the model notes of a call: the marks made so far and the time of the
\* last one while the calls are consecutive marks, the time since the last
\* mark for a willBlock(), the pending wait() calls and the timer's fields
\* before a cancel()
noteBackoffCall(op, result) ==
  LET consecutive == stillConsecutive(op)
  IN [op |-> op, result |-> result,
      marks |-> IF ~consecutive THEN 0
                ELSE IF op = "mark" THEN backoffCall.marks + 1 ELSE backoffCall.marks,
      markedAt |-> IF ~consecutive THEN 0
                   ELSE IF op = "mark" THEN now ELSE backoffCall.markedAt,
      consecutive |-> consecutive,
      elapsed |-> IF consecutive /\ op = "willBlock" /\ backoffCall.marks > 0
                  THEN now - backoffCall.markedAt ELSE 0,
      pending |-> IF op = "cancel" THEN pendingWaits ELSE {},
      before |-> IF op = "cancel" THEN backoffTimer ELSE NewBackoffTimer]

\* time passes
tick ==
  /\ \E t \in Instants : t > now /\ now' = t
  /\ UNCHANGED <<backoffTimer, waits, backoffCall>>
  /\ UNCHANGED <<session, call, timers, queues, pools, retry>>

mark ==
  /\ backoffTimer.iteration < MaxIteration
  /\ backoffTimer' = [backoffTimer EXCEPT !.iteration = @ + 1,
                                          !.lastWaitUtcTimeMs = nowMs]
  /\ backoffCall' = noteBackoffCall("mark", FALSE)
  /\ UNCHANGED <<now, waits>>
  /\ UNCHANGED <<session, call, timers, queues, pools, retry>>

willBlock ==
  /\ backoffTimer' = getWaitMilliseconds(backoffTimer).timer
  /\ backoffCall' = noteBackoffCall("willBlock", getWaitMilliseconds(backoffTimer).ms > 0)
  /\ UNCHANGED <<now, waits>>
  /\ UNCHANGED <<session, call, timers, queues, pools, retry>>

\* wait(): the promise is made and its timeout is set; this.timeout is still
\* the old one when getWaitMilliseconds() is called
wait ==
  /\ backoffTimer.iteration < MaxIteration
  /\ Len(waits) < MaxWaits
  /\ LET marked == [backoffTimer EXCEPT !.iteration = @ + 1,
                                        !.lastWaitUtcTimeMs = nowMs]
         delay == getWaitMilliseconds(marked)
         n == Len(waits) + 1
     IN /\ backoffTimer' = [delay.timer EXCEPT !.timeoutResolve = n, !.timeout = n]
        /\ waits' = Append(waits, [delay |-> delay.ms, due |-> now + delay.ms,
                                   timeout |-> "armed",
                                   promise |-> "pending", resolveCalls |-> 0,
                                   cancelCalled |-> FALSE])
  /\ backoffCall' = noteBackoffCall("wait", FALSE)
  /\ UNCHANGED now
  /\ UNCHANGED <<session, call, timers, queues, pools, retry>>

\* resolve({wasCancelled}) on the promise of a wait(): a promise is resolved
\* once
resolveWait(w, wasCancelled) ==
  [w EXCEPT !.promise = IF @ = "pending"
                        THEN (IF wasCancelled THEN "wasCancelled: true"
                              ELSE "wasCancelled: false")
                        ELSE @,
            !.resolveCalls = @ + 1]

\* the callback of the timeout of the n-th wait() runs, its delay having
\* passed: timeouts run in the order in which they are due, and in the order
\* in which they were set when they are due together; the model leaves open
\* how long after
waitTimeoutCallback(n) ==
  /\ n \in 1..Len(waits)
  /\ waits[n].timeout = "armed"
  /\ \A m \in 1..Len(waits) :
       waits[m].timeout = "armed"
         => \/ waits[m].due > waits[n].due
            \/ waits[m].due = waits[n].due /\ m >= n
  /\ backoffTimer' = [backoffTimer EXCEPT !.timeout = 0, !.timeoutResolve = 0]
  /\ waits' = [waits EXCEPT ![n] = resolveWait([@ EXCEPT !.timeout = "fired"], FALSE)]
  /\ backoffCall' = noteBackoffCall("timeout", FALSE)
  /\ UNCHANGED now
  /\ UNCHANGED <<session, call, timers, queues, pools, retry>>

\* BackoffTimer.cancel()
cancelWait ==
  /\ LET told == [n \in 1..Len(waits) |->
                    [waits[n] EXCEPT !.cancelCalled = @ \/ waits[n].promise = "pending"]]
     IN IF backoffTimer.timeout # 0
        THEN /\ waits' = [told EXCEPT
                            ![backoffTimer.timeout].timeout = "cleared",
                            ![backoffTimer.timeoutResolve] = resolveWait(@, TRUE)]
             /\ backoffTimer' = NewBackoffTimer
        ELSE /\ waits' = told
             /\ UNCHANGED backoffTimer
  /\ backoffCall' = noteBackoffCall("cancel", FALSE)
  /\ UNCHANGED now
  /\ UNCHANGED <<session, call, timers, queues, pools, retry>>

NextBackoff ==
  \/ tick
  \/ mark
  \/ willBlock
  \/ wait
  \/ \E n \in 1..MaxWaits : waitTimeoutCallback(n)
  \/ cancelWait

SpecBackoff == Init /\ [][NextBackoff]_vars

\* the event loop runs the callback of every timeout that is due
SpecBackoffFair ==
  /\ Init /\ [][NextBackoff]_vars
  /\ \A n \in 1..MaxWaits : WF_vars(waitTimeoutCallback(n))

(***************************************************************************)
(* Queue                                                                   *)
(* A queue is its head, its tail and the nodes allocated so far; a node is *)
(* named by its index, and 0 is a reference that is not set.               *)
(***************************************************************************)
Items == {"a", "b"}

\* the number of nodes up to which the model follows a Queue
MaxNodes == 4

pushBack(q, obj) ==
  LET node == Len(q.nodes) + 1
  IN IF q.tail = 0
     THEN [head |-> node, tail |-> node,
           nodes |-> Append(q.nodes, [obj |-> obj, next |-> 0])]
     ELSE [head |-> q.head, tail |-> node,
           nodes |-> Append([q.nodes EXCEPT ![q.tail].next = node],
                            [obj |-> obj, next |-> 0])]

\* variant of popFront: the tail is kept when the last node is taken
popFront_keepTail(q) ==
  IF q.head = 0 THEN [queue |-> q, value |-> "null"]
  ELSE [queue |-> [q EXCEPT !.head = q.nodes[q.head].next],
        value |-> q.nodes[q.head].obj]

\* popFront(): the queue it leaves and the value it returns
popFront(q) ==
  IF q.head = 0 THEN [queue |-> q, value |-> "null"]
  ELSE LET oldHead == q.head
           head == q.nodes[oldHead].next
       IN [queue |-> [q EXCEPT !.head = head,
                               !.tail = IF head = 0 THEN 0 ELSE @],
           value |-> q.nodes[oldHead].obj]

isEmpty(q) == q.head = 0

clear(q) == [q EXCEPT !.head = 0, !.tail = 0]

pushFront(q, obj) ==
  [q EXCEPT !.head = Len(q.nodes) + 1,
            !.nodes = Append(@, [obj |-> obj, next |-> q.head])]

\* the values a for...of loop is given by the iterator that stands at
\* currentNode: the loop takes the value of a result whose done is false and
\* ends at the first result whose done is true
RECURSIVE iterate(_, _)
iterate(q, currentNode) ==
  IF currentNode = 0 THEN <<>>
  ELSE IF q.nodes[currentNode].next = 0 THEN <<>>
  ELSE <<q.nodes[currentNode].obj>> \o iterate(q, q.nodes[currentNode].next)

noteQueueCall(op, result, visited) ==
  [op |-> op, result |-> result, visited |-> visited, before |-> deque]

callPushBack(obj) ==
  /\ Len(queue.nodes) < MaxNodes
  /\ queue' = pushBack(queue, obj)
  /\ deque' = Append(deque, obj)
  /\ queueCall' = noteQueueCall("pushBack", "undefined", <<>>)
  /\ UNCHANGED <<session, call, timers, backoff, pools, retry>>

callPopFront ==
  /\ queue' = popFront(queue).queue
  /\ deque' = IF deque = <<>> THEN deque ELSE Tail(deque)
  /\ queueCall' = noteQueueCall("popFront", popFront(queue).value, <<>>)
  /\ UNCHANGED <<session, call, timers, backoff, pools, retry>>

callIsEmpty ==
  /\ queueCall' = noteQueueCall("isEmpty", IF isEmpty(queue) THEN "true" ELSE "false", <<>>)
  /\ UNCHANGED <<queue, deque>>
  /\ UNCHANGED <<session, call, timers, backoff, pools, retry>>

callClear ==
  /\ queue' = clear(queue)
  /\ deque' = <<>>
  /\ queueCall' = noteQueueCall("clear", "undefined", <<>>)
  /\ UNCHANGED <<session, call, timers, backoff, pools, retry>>

callPushFront(obj) ==
  /\ Len(queue.nodes) < MaxNodes
  /\ queue' = pushFront(queue, obj)
  /\ deque' = <<obj>> \o deque
  /\ queueCall' = noteQueueCall("pushFront", "undefined", <<>>)
  /\ UNCHANGED <<session, call, timers, backoff, pools, retry>>

\* for (const obj of queue) visited.push(obj)
forOf ==
  /\ queueCall' = noteQueueCall("for...of", "undefined", iterate(queue, queue.head))
  /\ UNCHANGED <<queue, deque>>
  /\ UNCHANGED <<session, call, timers, backoff, pools, retry>>

NextQueue ==
  \/ \E obj \in Items : callPushBack(obj)
  \/ callPopFront
  \/ callIsEmpty
  \/ callClear
  \/ \E obj \in Items : callPushFront(obj)
  \/ forOf

SpecQueue == Init /\ [][NextQueue]_vars

(***************************************************************************)
(* Pool                                                                    *)
(***************************************************************************)
\* the number of Pool.get() calls the model makes
MaxGets == 3

\* the number of times the model invokes one doneWithItemCallback
MaxCallbackCalls == 2

\* createElement(): the n-th call makes the element n
createElement(n) == n

\* the items released and not handed out again, in the order of their release
releasedAfter(op, item) ==
  IF op = "doneWithItemCallback" THEN Append(poolCall.released, item)
  ELSE IF poolCall.released = <<>> THEN <<>> ELSE Tail(poolCall.released)

\* Pool.get()
get ==
  /\ Len(poolObjects) < MaxGets
  /\ LET create == isEmpty(pool.queue)
         value == IF create THEN createElement(pool.created + 1)
                  ELSE popFront(pool.queue).value
     IN /\ pool' = IF create THEN [pool EXCEPT !.created = @ + 1]
                   ELSE [pool EXCEPT !.queue = popFront(pool.queue).queue]
        /\ poolObjects' = Append(poolObjects, [item |-> value, calls |-> 0])
        /\ poolCall' = [op |-> "get", item |-> value, created |-> create,
                        waiting |-> poolCall.released,
                        released |-> releasedAfter("get", value)]
  /\ UNCHANGED <<session, call, timers, backoff, queues, retry>>

\* the doneWithItemCallback of the i-th PoolObject is invoked
doneWithItemCallback(i) ==
  /\ i \in 1..Len(poolObjects)
  /\ poolObjects[i].calls < MaxCallbackCalls
  /\ pool' = [pool EXCEPT !.queue = pushBack(@, poolObjects[i].item)]
  /\ poolObjects' = [poolObjects EXCEPT ![i].calls = @ + 1]
  /\ poolCall' = [op |-> "doneWithItemCallback", item |-> poolObjects[i].item,
                  created |-> FALSE, waiting |-> poolCall.released,
                  released |-> releasedAfter("doneWithItemCallback", poolObjects[i].item)]
  /\ UNCHANGED <<session, call, timers, backoff, queues, retry>>

NextPool ==
  \/ get
  \/ \E i \in 1..MaxGets : doneWithItemCallback(i)

SpecPool == Init /\ [][NextPool]_vars

(***************************************************************************)
(* runWithRetry                                                            *)
(***************************************************************************)
\* the retryCount and retryIntervalInSeconds runWithRetry is called with: <<>>
\* is an argument that is not given
RetryCounts == {<<>>, <<0>>, <<1>>, <<2>>, <<-1>>}

RetryIntervals == {<<>>, <<0>>}

\* the number of doTask() calls up to which the model follows runWithRetry
MaxTasks == 4

\* the loop condition, and what follows it: doTask() is called and awaited,
\* or the loop is left and the promise is settled
loopOrLeave(r) ==
  IF r.retryCount < 0 \/ r.i <= r.retryCount
  THEN [r EXCEPT !.pc = "await doTask()"]
  ELSE [r EXCEPT !.pc = "done",
                 !.promise = IF r.error # 0 THEN [state |-> "rejected", of |-> r.error]
                             ELSE [state |-> "resolved", of |-> r.result]]

\* result = await doTask(); break; and what follows the loop
taskSucceeds(r) ==
  LET n == Len(r.tasks) + 1
  IN [r EXCEPT !.tasks = Append(@, [ok |-> TRUE, n |-> n]),
               !.result = n, !.pc = "done",
               !.promise = IF r.error # 0 THEN [state |-> "rejected", of |-> r.error]
                           ELSE [state |-> "resolved", of |-> n]]

\* catch (e) { error = e; await waitFor(retryIntervalInSeconds); }
taskFails(r) ==
  LET n == Len(r.tasks) + 1
  IN [r EXCEPT !.tasks = Append(@, [ok |-> FALSE, n |-> n]),
               !.error = n, !.pc = "await waitFor()"]

\* runWithRetry(doTask, retryCount, retryIntervalInSeconds) is called and runs
\* to its first await
runWithRetry(count, interval) ==
  /\ retry.pc = "idle"
  /\ retry' = loopOrLeave([NotRunning EXCEPT
                             !.args = <<count, interval>>,
                             !.retryCount = IF count = <<>> THEN 2 ELSE count[1],
                             !.retryIntervalInSeconds =
                                IF interval = <<>> THEN 1 ELSE interval[1],
                             !.promise = [state |-> "pending", of |-> 0]])
  /\ UNCHANGED <<session, call, timers, backoff, queues, pools>>

\* the promise of doTask() is fulfilled
doTaskResolves ==
  /\ retry.pc = "await doTask()"
  /\ Len(retry.tasks) < MaxTasks
  /\ retry' = taskSucceeds(retry)
  /\ UNCHANGED <<session, call, timers, backoff, queues, pools>>

\* the promise of doTask() is rejected
doTaskRejects ==
  /\ retry.pc = "await doTask()"
  /\ Len(retry.tasks) < MaxTasks
  /\ retry' = taskFails(retry)
  /\ UNCHANGED <<session, call, timers, backoff, queues, pools>>

\* the promise of waitFor() is resolved: i++ and the loop condition
waitForResolves ==
  /\ retry.pc = "await waitFor()"
  /\ retry' = loopOrLeave([retry EXCEPT !.i = @ + 1])
  /\ UNCHANGED <<session, call, timers, backoff, queues, pools>>

NextRetry ==
  \/ \E count \in RetryCounts, interval \in RetryIntervals : runWithRetry(count, interval)
  \/ doTaskResolves
  \/ doTaskRejects
  \/ waitForResolves

SpecRetry == Init /\ [][NextRetry]_vars

(***************************************************************************)
(* util.getPathWithCreate, util.getPath, util.set                          *)
(* A value is its kind, its own properties when it is an object, and its   *)
(* text when it is a string.                                               *)
(***************************************************************************)
NoProps == [k \in {} |-> 0]

JsUndefined == [kind |-> "undefined", props |-> NoProps, prim |-> ""]

JsNull == [kind |-> "null", props |-> NoProps, prim |-> ""]

JsString(text) == [kind |-> "string", props |-> NoProps, prim |-> text]

JsObject(props) == [kind |-> "object", props |-> props, prim |-> ""]

InvalidParameterKind == "INVALID_PARAMETER"

\* util.notSet on a value of this form
valueNotSet(v) == v.kind \in {"undefined", "null"}

\* rootObject[key]
readProperty(rootObject, key) ==
  IF rootObject.kind = "object" /\ key \in DOMAIN rootObject.props
  THEN rootObject.props[key]
  ELSE JsUndefined

\* rootObject[key] = value, on an object
writeProperty(rootObject, key, value) ==
  [rootObject EXCEPT !.props = (key :> value) @@ @]

\* getPath(obj, path, defaultValue)
RECURSIVE getPath(_, _, _)
getPath(obj, path, defaultValue) ==
  IF valueNotSet(obj) THEN defaultValue
  ELSE IF path = <<>> THEN obj
  ELSE LET subObject == readProperty(obj, path[1])
       IN IF valueNotSet(subObject) THEN defaultValue
          ELSE getPath(subObject, Tail(path), defaultValue)

\* set(obj, path, value), as what it makes of obj: getPathWithCreate walks the
\* path but for its last key, putting {} where a property is not set, and the
\* value is assigned under the last key.  An assignment to a property of a
\* string throws a TypeError in strict code and is ignored otherwise.
RECURSIVE assignAt(_, _, _, _)
assignAt(rootObject, path, value, strict) ==
  IF rootObject.kind # "object"
  THEN IF strict THEN Throw(TypeErrorKind, rootObject) ELSE Ok(rootObject)
  ELSE IF Len(path) = 1 THEN Ok(writeProperty(rootObject, path[1], value))
  ELSE LET found == readProperty(rootObject, path[1])
           subObject == IF valueNotSet(found) THEN JsObject(NoProps) ELSE found
           below == assignAt(subObject, Tail(path), value, strict)
       IN IF below.kind # "ok" THEN Throw(below.kind, rootObject)
          ELSE Ok(writeProperty(rootObject, path[1], below.val))

\* set(obj, path, value): obj as the call leaves it
set(obj, path, value, strict) ==
  IF valueNotSet(obj) THEN Throw(InvalidParameterKind, obj)
  ELSE IF path = <<>> THEN Throw(InvalidParameterKind, obj)
  ELSE assignAt(obj, path, value, strict)

UtilObjects ==
  { JsObject(NoProps),
    JsObject("a" :> JsString("s")),
    JsObject("a" :> JsNull),
    JsObject("a" :> JsObject("b" :> JsString("t"))),
    JsObject(("a" :> JsObject(NoProps)) @@ ("b" :> JsString("u"))),
    JsObject(("a" :> JsObject("b" :> JsObject("a" :> JsString("w"))))
               @@ ("b" :> JsString("u"))) }

UtilPaths ==
  { <<>>, <<"a">>, <<"b">>, <<"a", "b">>, <<"b", "a">>, <<"a", "a">>,
    <<"a", "b", "a">>, <<"b", "a", "b">> }

UtilValues == { JsString("v"), JsObject("b" :> JsString("x")), JsNull }

SetArgs == [obj : UtilObjects, path : UtilPaths, value : UtilValues, strict : BOOLEAN]

InitUtil ==
  /\ InitSession
  /\ timers = NoTimers
  /\ InitOthers
  /\ call \in { Pending("set", a) : a \in SetArgs }

callSet ==
  /\ call.fn = "set" /\ ~call.done
  /\ call' = [call EXCEPT !.done = TRUE,
                !.result = set(call.args.obj, call.args.path, call.args.value,
                               call.args.strict)]
  /\ UNCHANGED <<session, timers, others>>

NextUtil == callSet

SpecUtil == InitUtil /\ [][NextUtil]_vars

(***************************************************************************)
(* What the claims speak of                                                *)
(***************************************************************************)
IsGet == lastCall.op = "getAuthorizationHeader"

IsSetWww == lastCall.op = "setWwwAuthenticate"

\* the scheme of the installed challenge, Undefined when none is installed
ActiveScheme == IF authInfo = <<>> THEN Undefined ELSE getProp(authInfo[1], K_authType)

\* the installed challenge is a Digest challenge whose qop resolves to auth or
\* auth-int
DigestWithQop ==
  /\ ActiveScheme = S_digest
  /\ resolveQop(authInfo[1]).kind = "ok"
  /\ isSet(resolveQop(authInfo[1]).val)

\* everything of the session but the bookkeeping is as it was before the call
SessionUnchangedByCall ==
  /\ nonceCount = lastCall.before.nonceCount
  /\ clientNonce = lastCall.before.clientNonce
  /\ authInfo = lastCall.before.authInfo
  /\ username = lastCall.before.username
  /\ password = lastCall.before.password

\* the scheme names a header string offers: the words that start the string
\* or follow ", ", and end at a space with no = , or " before it
schemesOffered(h) ==
  LET starts(i) == i = 1 \/ (i >= 3 /\ h[i - 2] = "," /\ h[i - 1] = " ")
      word(i, j) == \A k \in i..(j - 1) : h[k] \notin {"=", ",", "\"", " "}
  IN { toLowerCase(SubSeq(h, i, j - 1)) :
         <<i, j>> \in { <<i, j>> \in (1..Len(h)) \X (1..Len(h)) :
                          i < j /\ starts(i) /\ h[j] = " " /\ word(i, j) } }

valuesOf(w) == IF w.isArray THEN w.value ELSE <<w.value>>

schemesOfInput(w) == UNION { schemesOffered(valuesOf(w)[i]) : i \in 1..Len(valuesOf(w)) }

\* every header string of the input parses
WellFormed(w) ==
  \A i \in 1..Len(valuesOf(w)) : parseWwwAuthenticateHeader(valuesOf(w)[i]).kind = "ok"

\* s is the word true, in any mix of cases
IsTrueIgnoringCase(s) ==
  /\ Len(s) = 4
  /\ s[1] \in {"t", "T"} /\ s[2] \in {"r", "R"} /\ s[3] \in {"u", "U"} /\ s[4] \in {"e", "E"}

Colon == <<":">>

(***************************************************************************)
(* The claims                                                              *)
(***************************************************************************)
\* C1: the nonce counts that successive getAuthorizationHeader calls use against
\* the same installed Digest challenge object are strictly increasing, whatever
\* setCredentials and setWwwAuthenticate calls (successful or failing) come
\* between them.  Stated on a call that returned a Digest header: the count it
\* passed is greater than the count last passed against that challenge.
C1_CountsStrictlyIncrease ==
  (IsGet /\ lastCall.result.kind = "ok" /\ ActiveScheme = S_digest)
    => lastUsedCount > lastCall.before.lastUsedCount

\* C2: a successful setWwwAuthenticate leaves nonceCount = 1 and a clientNonce
\* that is the value drawn from the random generator during the call; and of
\* the getAuthorizationHeader calls that directly follow it on a Digest
\* challenge with qop, the first reports nc=00000001 and the second
\* nc=00000002.
C2_InstallResetsNonceState ==
  /\ (IsSetWww /\ lastCall.result.kind = "ok")
       => /\ nonceCount = 1
          /\ Len(lastCall.args.drawn) = 1
          /\ clientNonce = lastCall.args.drawn[1]
  /\ (sinceInstall.open /\ DigestWithQop)
       => /\ Len(sinceInstall.nc) >= 1
               => sinceInstall.nc[1] = <<"0","0","0","0","0","0","0","1">>
          /\ Len(sinceInstall.nc) >= 2
               => sinceInstall.nc[2] = <<"0","0","0","0","0","0","0","2">>

C2_Witness ==
  /\ sinceInstall.open /\ DigestWithQop /\ Len(sinceInstall.nc) = 2
  /\ clientNonce # lastCall.before.clientNonce \/ IsGet

\* C3: nonceCount is an integer >= 1 in every state, and a
\* getAuthorizationHeader call that returns a header against a Digest challenge
\* whose resolved qop is auth or auth-int passes the nonceCount it found (the
\* header's nc field is that count) and leaves nonceCount greater by exactly 1.
C3_CountIncrementedByOne ==
  /\ nonceCount \in Nat /\ nonceCount >= 1
  /\ (IsGet /\ lastCall.result.kind = "ok" /\ DigestWithQop)
       => /\ ncField(lastCall.result) = toPaddedHexString(lastCall.before.nonceCount, 8)
          /\ nonceCount = lastCall.before.nonceCount + 1

C3_Witness ==
  /\ IsGet /\ lastCall.result.kind = "ok" /\ DigestWithQop
  /\ lastCall.before.nonceCount = 2

\* C4: getAuthorizationHeader on a session with no active challenge fails with
\* the precondition error, returns no header, and leaves nonceCount,
\* clientNonce, the credentials and activeChallenge as they were.
C4_NoChallengeIsPreconditionError ==
  (IsGet /\ lastCall.before.authInfo = <<>>)
    => /\ lastCall.result.kind = PreconditionKind
       /\ SessionUnchangedByCall

C4_Witness ==
  /\ IsGet /\ lastCall.before.authInfo = <<>>
  /\ isSet(lastCall.before.username)

\* C5: isValid() is true exactly in the Ready state: username and password both
\* set and a challenge installed whose scheme is digest or basic; so it is false
\* with no challenge (Uninitialized, CredentialedOnly) and with a challenge but
\* no credentials (Challenged).
Ready ==
  /\ isSet(username) /\ isSet(password)
  /\ authInfo # <<>>
  /\ ActiveScheme \in {S_digest, S_basic}

C5_ValidIffReady ==
  /\ isValid <=> Ready
  /\ lastCall.op = "isValid" => lastCall.result.val = Ready

C5_Witness == lastCall.op = "isValid" /\ lastCall.result.val = TRUE /\ ActiveScheme = S_basic

\* C6: whenever the WWW-Authenticate input (one string or a list, in any order)
\* offers a Digest challenge, setWwwAuthenticate installs the Digest challenge,
\* also when Basic or other schemes are offered too; when it offers no Digest
\* challenge but a Basic one, it installs the Basic challenge.  Stated for the
\* inputs whose every string parses.
C6_DigestPreferred ==
  (IsSetWww /\ WellFormed(lastCall.args.wwwAuthenticate))
    => LET offered == schemesOfInput(lastCall.args.wwwAuthenticate)
       IN /\ S_digest \in offered
               => lastCall.result.kind = "ok" /\ ActiveScheme = S_digest
          /\ (S_digest \notin offered /\ S_basic \in offered)
               => lastCall.result.kind = "ok" /\ ActiveScheme = S_basic

\* C7: when the input offers only schemes other than digest and basic,
\* setWwwAuthenticate fails with the unsupported-scheme error, and the error
\* lists the lower-cased name of every scheme offered.  Stated for the inputs
\* whose every string parses.
C7_UnsupportedSchemesListed ==
  (IsSetWww /\ WellFormed(lastCall.args.wwwAuthenticate))
    => LET offered == schemesOfInput(lastCall.args.wwwAuthenticate)
       IN (offered # {} /\ offered \cap {S_digest, S_basic} = {})
            => /\ lastCall.result.kind = UnsupportedSchemeKind
               /\ \A name \in offered : includes(lastCall.result.val, name)

\* C8: on a session with an installed challenge, previousFailedRequestWasStale()
\* returns true exactly when the challenge has a stale attribute that is the
\* word true in any mix of cases, false when it has none or another value, and
\* it changes nothing of the session.
C8_StaleIffTrueIgnoringCase ==
  (lastCall.op = "previousFailedRequestWasStale" /\ authInfo # <<>>)
    => /\ lastCall.result.kind = "ok"
       /\ lastCall.result.val
            = (/\ K_stale \in DOMAIN authInfo[1]
               /\ IsTrueIgnoringCase(authInfo[1][K_stale]))
       /\ SessionUnchangedByCall

C8_Witness ==
  /\ lastCall.op = "previousFailedRequestWasStale" /\ authInfo # <<>>
  /\ lastCall.result.val = TRUE
  /\ getProp(authInfo[1], K_stale) # S_true

\* C9: with HA1 and HA2 as createDigestResponse computes them, the response is
\* md5(HA1:nonce:nc:clientNonce:qop:HA2) when the qop is auth or auth-int, nc
\* being the nonce count as 8 zero-padded lowercase hex digits, and
\* md5(HA1:nonce:HA2) when there is no qop, where neither the nonce count nor
\* the client nonce is hashed.  Stated for a challenge that carries a nonce.
C9_ResponseComposition ==
  (call.fn = "createDigestResponse" /\ call.done /\ call.result.kind = "ok"
     /\ isSet(getProp(call.args.authInfo, K_nonce)))
    => LET a == call.args
           HA1 == Template(digestHA1(a.authInfo, a.username, a.password, a.clientNonce))
           HA2 == Template(digestHA2(a.method, a.uri, a.qopType, a.body))
           nonce == getProp(a.authInfo, K_nonce)
       IN IF a.qopType \in {S_auth, S_auth_int}
          THEN call.result.val
                 = md5(HA1 \o Colon \o nonce \o Colon \o toPaddedHexString(a.nonceCount, 8)
                         \o Colon \o a.clientNonce \o Colon \o a.qopType \o Colon \o HA2)
          ELSE call.result.val = md5(HA1 \o Colon \o nonce \o Colon \o HA2)

C9_Witness ==
  /\ call.fn = "createDigestResponse" /\ call.done /\ call.result.kind = "ok"
  /\ call.args.qopType = S_auth_int /\ call.args.nonceCount = 2

\* C10: HA1 is md5(username:realm:password) when the algorithm is unset or MD5,
\* and md5(md5(username:realm:password):nonce:clientNonce) when it is MD5-sess.
\* Stated on the response, which is the hash of HA1 and the other fields.
ClaimedHA1(a) ==
  LET a1 == a.username \o Colon \o getProp(a.authInfo, K_realm) \o Colon \o a.password
  IN IF getProp(a.authInfo, K_algorithm) = S_MD5_sess
     THEN md5(md5(a1) \o Colon \o getProp(a.authInfo, K_nonce) \o Colon \o a.clientNonce)
     ELSE md5(a1)

C10_HA1PerAlgorithm ==
  (/\ call.fn = "createDigestResponse" /\ call.done /\ call.result.kind = "ok"
   /\ getProp(call.args.authInfo, K_algorithm) \in {Undefined, S_MD5, S_MD5_sess}
   /\ isSet(call.args.clientNonce))
    => LET a == call.args
           HA2 == Template(digestHA2(a.method, a.uri, a.qopType, a.body))
           nonce == getProp(a.authInfo, K_nonce)
       IN IF a.qopType \in {S_auth, S_auth_int}
          THEN call.result.val
                 = md5(ClaimedHA1(a) \o Colon \o nonce \o Colon
                         \o toPaddedHexString(a.nonceCount, 8) \o Colon \o a.clientNonce
                         \o Colon \o a.qopType \o Colon \o HA2)
          ELSE call.result.val = md5(ClaimedHA1(a) \o Colon \o nonce \o Colon \o HA2)

\* the call of an exported function fn that has returned or thrown
Called(fn) == call.fn = fn /\ call.done

\* the indexes at which sub occurs in s
positionsOf(s, sub) ==
  { i \in 1..(Len(s) - Len(sub) + 1) : SubSeq(s, i, i + Len(sub) - 1) = sub }

hasField(s, sub) == positionsOf(s, sub) # {}

\* the tokens of a qop list as a server writes it: separated by commas, with
\* optional spaces around them
qopTokens(qop) ==
  { SubSeq(qop, i, j) :
      <<i, j>> \in { <<i, j>> \in (1..Len(qop)) \X (1..Len(qop)) :
                       /\ i <= j
                       /\ \A k \in i..j : qop[k] \notin {",", " "}
                       /\ i = 1 \/ qop[i - 1] \in {",", " "}
                       /\ j = Len(qop) \/ qop[j + 1] \in {",", " "} } }

F_qop == <<","," ","q","o","p","=">>

F_nc == <<","," ","n","c","=">>

F_cnonce == <<","," ","c","n","o","n","c","e","=","\"">>

F_opaque == <<","," ","o","p","a","q","u","e","=","\"">>

\* C11: HA2 is md5(method:uri) when the qop is unset or auth, and
\* md5(method:uri:md5(body)) when the qop is auth-int, an absent body being
\* hashed as the empty byte string.  Stated on the response, which is the hash
\* of HA1, HA2 and the other fields.
ClaimedHA2(a) ==
  IF a.qopType = S_auth_int
  THEN md5(a.method \o Colon \o a.uri \o Colon
             \o md5(IF a.body = Undefined THEN <<>> ELSE a.body))
  ELSE md5(a.method \o Colon \o a.uri)

C11_HA2PerQop ==
  (Called("createDigestResponse") /\ call.result.kind = "ok"
     /\ isSet(getProp(call.args.authInfo, K_nonce)))
    => LET a == call.args
           HA1 == Template(digestHA1(a.authInfo, a.username, a.password, a.clientNonce))
           nonce == getProp(a.authInfo, K_nonce)
       IN IF a.qopType \in {S_auth, S_auth_int}
          THEN call.result.val
                 = md5(HA1 \o Colon \o nonce \o Colon \o toPaddedHexString(a.nonceCount, 8)
                         \o Colon \o a.clientNonce \o Colon \o a.qopType \o Colon
                         \o ClaimedHA2(a))
          ELSE call.result.val = md5(HA1 \o Colon \o nonce \o Colon \o ClaimedHA2(a))

C11_Witness ==
  /\ Called("createDigestResponse") /\ call.result.kind = "ok"
  /\ call.args.qopType = S_auth_int /\ call.args.body = Undefined

\* C12: when the challenge's qop attribute lists both auth and auth-int, in
\* either order and with or without a space after the comma, the qop the header
\* is generated with is auth-int; when it lists only auth, it is auth.
C12_AuthIntPreferred ==
  (Called("createDigestAuthenticationString") /\ K_qop \in DOMAIN call.args.authInfo)
    => LET tokens == qopTokens(call.args.authInfo[K_qop])
       IN /\ S_auth_int \in tokens
               => /\ call.result.kind = "ok"
                  /\ hasField(call.result.val, F_qop \o S_auth_int \o <<",">>)
          /\ (S_auth \in tokens /\ S_auth_int \notin tokens)
               => /\ call.result.kind = "ok"
                  /\ hasField(call.result.val, F_qop \o S_auth \o <<",">>)

\* C13: a challenge whose qop attribute lists neither auth nor auth-int makes
\* the generation of the Digest header fail with the unsupported-qop error, no
\* header being returned; a challenge with no qop attribute raises no error and
\* gets the legacy header, which has no qop field.
C13_UnsupportedQopFails ==
  Called("createDigestAuthenticationString")
    => LET info == call.args.authInfo
       IN /\ (K_qop \in DOMAIN info /\ qopTokens(info[K_qop]) \cap {S_auth, S_auth_int} = {})
               => call.result.kind = UnsupportedQopKind
          /\ K_qop \notin DOMAIN info
               => call.result.kind = "ok" /\ ~hasField(call.result.val, F_qop)

C13_Witness ==
  /\ Called("createDigestAuthenticationString")
  /\ K_qop \in DOMAIN call.args.authInfo
  /\ call.result.kind = UnsupportedQopKind

\* C14: the Digest header has its fields in the order username, realm, nonce,
\* uri, response, then opaque, then qop, nc, cnonce; opaque is there exactly
\* when the challenge has an opaque attribute, and qop, nc and cnonce are there
\* exactly when a qop was resolved.
HeadFields ==
  << <<"D","i","g","e","s","t"," ","u","s","e","r","n","a","m","e","=","\"">>,
     <<"\"",","," ","r","e","a","l","m","=","\"">>,
     <<"\"",","," ","n","o","n","c","e","=","\"">>,
     <<"\"",","," ","u","r","i","=","\"">>,
     <<"\"",","," ","r","e","s","p","o","n","s","e","=","\"">> >>

TailFields == <<F_opaque, F_qop, F_nc, F_cnonce>>

\* the index of the one occurrence of field in h
at(h, field) == CHOOSE i \in positionsOf(h, field) : TRUE

C14_FieldOrder ==
  (Called("createDigestAuthenticationString") /\ call.result.kind = "ok")
    => LET h == call.result.val
           info == call.args.authInfo
           resolved == isSet(resolveQop(info).val)
           present == SelectSeq(TailFields, LAMBDA f : hasField(h, f))
           fields == HeadFields \o present
       IN /\ \A i \in 1..Len(HeadFields) : Cardinality(positionsOf(h, HeadFields[i])) = 1
          /\ \A i \in 1..Len(present) : Cardinality(positionsOf(h, present[i])) = 1
          /\ at(h, HeadFields[1]) = 1
          /\ \A i \in 1..(Len(fields) - 1) : at(h, fields[i]) < at(h, fields[i + 1])
          /\ hasField(h, F_opaque) <=> K_opaque \in DOMAIN info
          /\ \A f \in {F_qop, F_nc, F_cnonce} : hasField(h, f) <=> resolved

C14_Witness ==
  /\ Called("createDigestAuthenticationString") /\ call.result.kind = "ok"
  /\ K_opaque \in DOMAIN call.args.authInfo
  /\ hasField(call.result.val, F_cnonce)

\* C15: for a Basic challenge the header is "Basic " followed by the base64 of
\* username, a colon and password, the colons of either left as they are; and
\* getAuthorizationHeader on a session whose challenge is basic returns it for
\* the credentials the session holds, whatever the method, uri and body.
base64Value(c) ==
  IF c = "=" THEN 0 ELSE (CHOOSE i \in 1..Len(Base64Chars) : Base64Chars[i] = c) - 1

\* the bytes that a base64 text stands for
RECURSIVE base64Decode(_)
base64Decode(text) ==
  IF Len(text) < 4 THEN <<>>
  ELSE LET n == ((base64Value(text[1]) * 64 + base64Value(text[2])) * 64
                   + base64Value(text[3])) * 64 + base64Value(text[4])
           bytes == <<n \div 65536, (n \div 256) % 256, n % 256>>
           kept == IF text[3] = "=" THEN 1 ELSE IF text[4] = "=" THEN 2 ELSE 3
       IN SubSeq(bytes, 1, kept) \o base64Decode(SubSeq(text, 5, Len(text)))

BasicPrefix == <<"B","a","s","i","c"," ">>

C15_BasicHeader ==
  (IsGet /\ ActiveScheme = S_basic)
    => /\ lastCall.result.kind = "ok"
       /\ SubSeq(lastCall.result.val, 1, Len(BasicPrefix)) = BasicPrefix
       /\ Len(lastCall.result.val) % 4 = Len(BasicPrefix) % 4
       /\ base64Decode(SubSeq(lastCall.result.val, Len(BasicPrefix) + 1,
                              Len(lastCall.result.val)))
            = bufferFrom(Template(username) \o Colon \o Template(password))

C15_Witness ==
  /\ IsGet /\ ActiveScheme = S_basic
  /\ password = <<"a", ":", "b">>
  /\ lastCall.args[1] = <<"P","O","S","T">> /\ lastCall.args[3] = <<"x">>

\* C16: for a nonce count n from 0 up, toPaddedHexString(n, 8) is 8 lowercase
\* hex digits, zeros on the left, that read back as hex give n; and for any
\* width, the result has as many digits as the larger of the width and the
\* number of hex digits of n, so a width that is not larger adds no zero and
\* cuts nothing.
LowerHex == {HexDigits[i] : i \in 1..Len(HexDigits)}

RECURSIVE parseHex(_)
parseHex(text) ==
  IF Len(text) = 0 THEN 0
  ELSE parseHex(SubSeq(text, 1, Len(text) - 1)) * 16
         + (CHOOSE i \in 1..Len(HexDigits) : HexDigits[i] = text[Len(text)]) - 1

\* the number of hex digits of n, for n below 16^8
hexDigitCount(n) ==
  IF n = 0 THEN 1 ELSE CHOOSE k \in 1..8 : n \div (16 ^ (k - 1)) > 0 /\ (k = 8 \/ n \div (16 ^ k) = 0)

C16_PaddedHexRoundTrip ==
  Called("toPaddedHexString")
    => LET text == call.result.val
           n == call.args.n
           padTo == call.args.padTo
       IN /\ \A i \in 1..Len(text) : text[i] \in LowerHex
          /\ Len(text) = Max(padTo, hexDigitCount(n))
          /\ padTo = 8 => Len(text) = 8
          /\ parseHex(text) = n
          /\ \A i \in 1..(Len(text) - hexDigitCount(n)) : text[i] = "0"

C16_Witness ==
  /\ Called("toPaddedHexString")
  /\ call.args.n = 305419896 /\ call.args.padTo = 4
  /\ call.result.val = <<"1","2","3","4","5","6","7","8">>

\* C17: every malformed header value (a last token with no = where key=value
\* is required, a bare scheme name, a quoted value that is not closed) makes
\* parseWwwAuthenticateHeader fail with the parse error that carries the
\* original header string; it fails in no other way and returns no challenge.
\* the double quotes of h that no backslash precedes
openOrClose(h) == { i \in positionsOf(h, <<"\"">>) : i = 1 \/ h[i - 1] # "\\" }

\* the text after the last comma of h that is outside the quoted values
afterLastComma(h) ==
  LET commas == { i \in positionsOf(h, <<",">>) :
                    Cardinality({ q \in openOrClose(h) : q < i }) % 2 = 0 }
  IN IF commas = {} THEN h
     ELSE SubSeq(h, (CHOOSE i \in commas : \A j \in commas : j <= i) + 1, Len(h))

Malformed(h) ==
  \/ Cardinality(openOrClose(h)) % 2 = 1
  \/ ~hasField(afterLastComma(h), <<"=">>)

C17_MalformedIsParseError ==
  (Called("parseWwwAuthenticateHeader") /\ Malformed(call.args.headerValue))
    => /\ call.result.kind = ParseErrorKind
       /\ call.result.val = call.args.headerValue

\* C18: when the quoted value of a key="value" pair holds backslash-escaped
\* quotes, the parser ends the value at the closing quote that is not escaped,
\* stores the value with the escaped quotes as quote characters, and goes on
\* with the pair that follows.  Stated on a header whose escaped value is
\* followed by a nonce pair: a challenge is returned, one of its values holds
\* a quote character, and it has the nonce.
EscapedQuote == <<"\\", "\"">>

C18_EscapedQuotesKept ==
  (/\ Called("parseWwwAuthenticateHeader")
   /\ hasField(call.args.headerValue, EscapedQuote)
   /\ hasField(call.args.headerValue, <<","," ","n","o","n","c","e","=","\"">>))
    => /\ call.result.kind = "ok"
       /\ \E k \in DOMAIN call.result.val : hasField(call.result.val[k], <<"\"">>)
       /\ K_nonce \in DOMAIN call.result.val

\* C19: when one header string names several schemes, each scheme gets its own
\* challenge holding only the attributes that follow its name, and every one of
\* them is entered in the map the selection reads; so the challenge that
\* setWwwAuthenticate installs is the challenge of one scheme as offered, and
\* when it fails for want of a supported scheme it lists every scheme offered.
schemeStarts(h) ==
  { i \in 1..Len(h) :
      /\ i = 1 \/ (i >= 3 /\ h[i - 2] = "," /\ h[i - 1] = " ")
      /\ \E j \in (i + 1)..Len(h) :
           h[j] = " " /\ \A k \in i..(j - 1) : h[k] \notin {"=", ",", "\"", " "} }

\* the part of h that offers the scheme named at index i
segmentOf(h, i) ==
  LET later == { k \in schemeStarts(h) : k > i }
  IN IF later = {} THEN SubSeq(h, i, Len(h))
     ELSE SubSeq(h, i, (CHOOSE k \in later : \A l \in later : k <= l) - 3)

challengesOffered(w) ==
  { parseWwwAuthenticateHeader(segmentOf(valuesOf(w)[n], i)).val :
      <<n, i>> \in { <<n, i>> \in (1..Len(valuesOf(w))) \X (1..64) :
                       i \in schemeStarts(valuesOf(w)[n]) } }

C19_IndependentChallenges ==
  (IsSetWww /\ WellFormed(lastCall.args.wwwAuthenticate))
    => /\ lastCall.result.kind = "ok"
            => authInfo[1] \in challengesOffered(lastCall.args.wwwAuthenticate)
       /\ lastCall.result.kind = UnsupportedSchemeKind
            => \A name \in schemesOfInput(lastCall.args.wwwAuthenticate) :
                 includes(lastCall.result.val, name)

\* C20: when a list of header values has several values for one scheme, the
\* challenge used for that scheme is the one parsed from the last of them in
\* list order, and it has no attribute of the earlier ones.  Stated for lists
\* whose values each offer one scheme: the installed challenge is the parse of
\* the last value of its scheme.
lastOfScheme(values, scheme) ==
  LET of == { i \in 1..Len(values) : schemesOffered(values[i]) = {scheme} }
  IN values[CHOOSE i \in of : \A j \in of : j <= i]

C20_LastValueWins ==
  (/\ IsSetWww /\ lastCall.result.kind = "ok"
   /\ lastCall.args.wwwAuthenticate.isArray
   /\ \A i \in 1..Len(lastCall.args.wwwAuthenticate.value) :
        Cardinality(schemesOffered(lastCall.args.wwwAuthenticate.value[i])) = 1)
    => authInfo[1]
         = parseWwwAuthenticateHeader(
             lastOfScheme(lastCall.args.wwwAuthenticate.value, ActiveScheme)).val

C20_Witness ==
  /\ IsSetWww /\ lastCall.result.kind = "ok"
  /\ lastCall.args.wwwAuthenticate.isArray
  /\ lastCall.args.wwwAuthenticate.value = <<HdrDigestAuthInt, HdrDigestLegacy>>
  /\ getProp(authInfo[1], K_nonce) = <<"c">>
  /\ K_opaque \notin DOMAIN authInfo[1]

\* C21: every installed challenge has its scheme set, and a Digest challenge
\* is installed only when it has a realm and a nonce, both non-empty: a Digest
\* header value without realm or nonce is rejected by setWwwAuthenticate.
C21_InstalledChallengeComplete ==
  authInfo # <<>>
    => /\ isSet(ActiveScheme)
       /\ ActiveScheme = S_digest
            => /\ K_realm \in DOMAIN authInfo[1] /\ Len(authInfo[1][K_realm]) > 0
               /\ K_nonce \in DOMAIN authInfo[1] /\ Len(authInfo[1][K_nonce]) > 0

\* C22: the getAuthorizationHeader calls made on one session against one
\* installed Digest challenge get the nonce counts 1, 2, 3, ... in call order,
\* none twice and none skipped, and a call that fails to produce a header
\* consumes no count.
C22_CountsInCallOrder ==
  /\ (sinceInstall.open /\ DigestWithQop)
       => \A i \in 1..Len(sinceInstall.nc) : sinceInstall.nc[i] = toPaddedHexString(i, 8)
  /\ (IsGet /\ lastCall.result.kind # "ok")
       => nonceCount = lastCall.before.nonceCount

\* C23: a getAuthorizationHeader call either raises an error or returns a
\* header whose fields all come from values that are set: username and
\* password from setCredentials, realm and nonce from the challenge.  With a
\* challenge installed and no credentials set it returns no header.
C23_NoHeaderFromUnsetValues ==
  (IsGet /\ lastCall.result.kind = "ok")
    => /\ isSet(username) /\ isSet(password)
       /\ ActiveScheme = S_digest
            => K_realm \in DOMAIN authInfo[1] /\ K_nonce \in DOMAIN authInfo[1]

\* C24: with qop auth or auth-int, createDigestResponse fails with the error
\* of an unmet precondition, returning no response, when the challenge has no
\* nonce or when no client nonce is given; with no qop the client nonce is not
\* required.
C24_NonceAndCnonceRequired ==
  Called("createDigestResponse")
    => LET a == call.args
           withQop == a.qopType \in {S_auth, S_auth_int}
       IN /\ (withQop /\ (K_nonce \notin DOMAIN a.authInfo \/ a.clientNonce = Undefined))
               => call.result.kind \in {NonceUnsetKind, CnonceUnsetKind}
          /\ (withQop /\ K_nonce \notin DOMAIN a.authInfo)
               => call.result.kind = NonceUnsetKind
          /\ (~withQop /\ a.clientNonce = Undefined) => call.result.kind = "ok"

C24_Witness ==
  /\ Called("createDigestResponse")
  /\ call.args.qopType = S_auth /\ call.args.clientNonce = Undefined
  /\ call.result.kind = CnonceUnsetKind

\* C25: once a setWwwAuthenticate call has succeeded the session always has a
\* challenge: no operation, a failing setWwwAuthenticate or
\* getAuthorizationHeader included, removes it, and it changes only by a
\* setWwwAuthenticate call that succeeds.
C25_ChallengeStays ==
  [][/\ authInfo # <<>> => authInfo' # <<>>
     /\ authInfo' # authInfo
          => lastCall'.op = "setWwwAuthenticate" /\ lastCall'.result.kind = "ok"]_vars

C25_Witness ==
  /\ IsSetWww /\ lastCall.result.kind # "ok"
  /\ authInfo # <<>> /\ lastCall.before.authInfo = authInfo

\* C26: setCredentials succeeds in every state of the session and changes
\* only username and password: the challenge, clientNonce and nonceCount are
\* after the call what they were before it, and with a digest or basic
\* challenge installed isValid() is true afterwards.
C26_SetCredentialsFrame ==
  lastCall.op = "setCredentials"
    => /\ lastCall.result.kind = "ok"
       /\ username = lastCall.args[1] /\ password = lastCall.args[2]
       /\ authInfo = lastCall.before.authInfo
       /\ clientNonce = lastCall.before.clientNonce
       /\ nonceCount = lastCall.before.nonceCount
       /\ (authInfo # <<>> /\ ActiveScheme \in {S_digest, S_basic}) => isValid

C26_Witness ==
  /\ lastCall.op = "setCredentials"
  /\ lastCall.before.nonceCount = 2 /\ ActiveScheme = S_digest
  /\ lastCall.before.username = Undefined

\* C27: parsing a header value that names one scheme gives one challenge whose
\* scheme is the lower-cased word before the first space, and whose attributes
\* are exactly the key=value pairs of the header, a quoted value without its
\* quotes and a bare value up to the next comma or the end; attributes that are
\* not in the header (qop, algorithm, stale) are unset and no error is raised.
lowerOf(c) ==
  IF \E i \in 1..Len(UpperChars) : UpperChars[i] = c
  THEN LowerChars[CHOOSE i \in 1..Len(UpperChars) : UpperChars[i] = c]
  ELSE c

\* the text of h after its scheme word
attributesText(h) == SubSeq(h, indexOf(h, " ") + 2, Len(h))

\* the key=value pairs of text: <<key, value>> for each part between the
\* commas that are outside the quoted values
pairsOf(text) ==
  LET cuts == {0, Len(text) + 1}
                \cup { i \in positionsOf(text, <<",">>) :
                         Cardinality({ q \in openOrClose(text) : q < i }) % 2 = 0 }
      nextCut(c) == CHOOSE d \in cuts : d > c /\ \A e \in cuts : e > c => d <= e
      first(c) == CHOOSE i \in (c + 1)..nextCut(c) :
                    /\ i = nextCut(c) \/ text[i] # " "
                    /\ \A j \in (c + 1)..(i - 1) : text[j] = " "
      part(c) == SubSeq(text, first(c), nextCut(c) - 1)
      key(p) == SubSeq(p, 1, indexOf(p, "="))
      raw(p) == SubSeq(p, indexOf(p, "=") + 2, Len(p))
      value(p) == IF Len(raw(p)) >= 2 /\ raw(p)[1] = "\"" /\ raw(p)[Len(raw(p))] = "\""
                  THEN SubSeq(raw(p), 2, Len(raw(p)) - 1)
                  ELSE raw(p)
  IN { <<key(part(c)), value(part(c))>> : c \in cuts \ {Len(text) + 1} }

ExpectedChallenge(h) ==
  LET pairs == pairsOf(attributesText(h))
      scheme == [i \in 1..indexOf(h, " ") |-> lowerOf(h[i])]
  IN [k \in {p[1] : p \in pairs} \cup {K_authType} |->
        IF k = K_authType THEN scheme
        ELSE (CHOOSE p \in pairs : p[1] = k)[2]]

OneScheme(h) ==
  /\ Cardinality(schemeStarts(h)) = 1
  /\ ~Malformed(h)
  /\ ~hasField(h, EscapedQuote)

C28_HeaderOfOneRound ==
  (IsGet /\ lastCall.result.kind = "ok" /\ DigestWithQop)
    => hasField(lastCall.result.val, F_cnonce \o sinceInstall.cnonce \o <<"\"">>)

\* C29: a Timer on which cancel() is called before it expires and before
\* finishEarly() makes waitForTimeout() reject with TimeoutCanceledError, and
\* neither the later expiry of the timeout nor a later finishEarly() turns
\* that into a resolution.
C29_CancelRejects ==
  \A t \in Timers :
    timers[t].first = "cancel"
      => /\ timers[t].finishedPromise = "rejected"
         /\ timers[t].awaited \in {"none", "waiting", "TimeoutCanceledError"}

C29_Witness ==
  \E t \in Timers :
    /\ timers[t].first = "cancel" /\ timers[t].last = "finishEarly"
    /\ timers[t].timeout = "fired"
    /\ timers[t].awaited = "TimeoutCanceledError"

\* C30: a Timer that is never cancelled eventually resolves waitForTimeout():
\* when its duration elapses, or at once when finishEarly() is called; and a
\* cancel() that comes after finishEarly() or after the expiry leaves the
\* promise resolved.
C30_UncancelledResolves ==
  \A t \in Timers :
    /\ [](timers[t].first \in {"finishEarly", "timeout"}
            => /\ timers[t].finishedPromise = "fulfilled"
               /\ timers[t].awaited # "TimeoutCanceledError")
    /\ timers[t].created
         ~> (timers[t].finishedPromise = "fulfilled" \/ timers[t].first = "cancel")
    /\ timers[t].awaited = "waiting"
         ~> (timers[t].awaited = "returned" \/ timers[t].first = "cancel")

C30_Witness ==
  \E t \in Timers :
    /\ timers[t].first = "finishEarly" /\ timers[t].last = "cancel"
    /\ timers[t].timeout = "armed"
    /\ timers[t].awaited = "returned"

\* C33: a challenge whose algorithm is a token other than MD5 and MD5-sess is
\* not rejected: createDigestResponse fails for it only where it fails for
\* every challenge (a missing nonce or client nonce with qop), and the
\* response it returns is the one computed with HA1 = md5(username:realm:password).
C33_UnknownAlgorithmIsMD5 ==
  (/\ Called("createDigestResponse")
   /\ getProp(call.args.authInfo, K_algorithm) \notin {Undefined, S_MD5, S_MD5_sess})
    => LET a == call.args
           HA2 == Template(digestHA2(a.method, a.uri, a.qopType, a.body))
           nonce == getProp(a.authInfo, K_nonce)
           withQop == a.qopType \in {S_auth, S_auth_int}
       IN /\ call.result.kind # "ok" => (withQop /\ (notSet(nonce) \/ notSet(a.clientNonce)))
          /\ call.result.kind = "ok"
               => call.result.val
                    = IF withQop
                      THEN md5(ClaimedHA1(a) \o Colon \o nonce \o Colon
                                 \o toPaddedHexString(a.nonceCount, 8) \o Colon
                                 \o a.clientNonce \o Colon \o a.qopType \o Colon \o HA2)
                      ELSE md5(ClaimedHA1(a) \o Colon \o nonce \o Colon \o HA2)

\* C34: a setWwwAuthenticate call that fails leaves the installed challenge,
\* clientNonce and nonceCount as they were before the call.
C34_FailedInstallChangesNothing ==
  (IsSetWww /\ lastCall.result.kind # "ok")
    => /\ authInfo = lastCall.before.authInfo
       /\ clientNonce = lastCall.before.clientNonce
       /\ nonceCount = lastCall.before.nonceCount

\* C35: previousFailedRequestWasStale() on a session with no installed
\* challenge raises an error, it does not return false.
C35_StaleWithoutChallengeThrows ==
  (lastCall.op = "previousFailedRequestWasStale" /\ lastCall.before.authInfo = <<>>)
    => lastCall.result.kind # "ok"

C35_Witness ==
  /\ lastCall.op = "previousFailedRequestWasStale" /\ lastCall.before.authInfo = <<>>
  /\ lastCall.result.kind = TypeErrorKind
  /\ isSet(lastCall.before.username)

\* the spacing, in milliseconds, the schedule asks for after k marks
requiredSpacingMs(k) == <<0, 1, 3, 5, 10, 30>>[Min(k - 1, 5) + 1] * 1000

\* C31: on a BackoffTimer that has only been marked, k times in a row,
\* willBlock() is false for k = 0 and k = 1 and true directly after the k-th
\* mark for k >= 2: it is true exactly while less than the schedule's entry at
\* index min(k - 1, 5), in seconds, has passed since the last mark.
C31_BackoffSchedule ==
  (backoffCall.op = "willBlock" /\ backoffCall.consecutive)
    => IF backoffCall.marks = 0 THEN backoffCall.result = FALSE
       ELSE backoffCall.result
              = (backoffCall.elapsed < requiredSpacingMs(backoffCall.marks))

\* C40: every promise wait() returns is resolved, once: with wasCancelled =
\* true when cancel() is called while it is pending, with wasCancelled = false
\* when its timeout expires; also when wait() is called while an earlier
\* wait() is pending.  cancel() with no pending wait() changes nothing.
C40_EveryWaitResolves ==
  /\ \A n \in 1..MaxWaits :
       /\ [](n \in 1..Len(waits)
               => /\ waits[n].resolveCalls <= 1
                  /\ waits[n].cancelCalled => waits[n].promise = "wasCancelled: true"
                  /\ waits[n].promise = "wasCancelled: false"
                       => waits[n].timeout = "fired")
       /\ (n \in 1..Len(waits))
            ~> (n \in 1..Len(waits) /\ waits[n].promise # "pending")
  /\ []((backoffCall.op = "cancel" /\ backoffCall.pending = {})
          => backoffTimer = backoffCall.before)

\* the elements in a queue, front to back: those of the nodes reached from
\* its head
RECURSIVE elementsFrom(_, _)
elementsFrom(q, node) ==
  IF node = 0 THEN <<>>
  ELSE <<q.nodes[node].obj>> \o elementsFrom(q, q.nodes[node].next)

\* C37: after any sequence of pushBack, pushFront, popFront and clear the
\* Queue holds the elements of the double-ended sequence the same operations
\* make, in its order: popFront returns its first element (null when it is
\* empty) and isEmpty() is true exactly when it is empty.
C37_QueueIsDeque ==
  /\ elementsFrom(queue, queue.head) = deque
  /\ queueCall.op = "popFront"
       => queueCall.result
            = IF queueCall.before = <<>> THEN "null" ELSE Head(queueCall.before)
  /\ queueCall.op = "isEmpty"
       => (queueCall.result = "true") = (deque = <<>>)

\* C38: a for...of loop over a Queue is given every element in the queue,
\* once, front to back, and leaves the queue as it is.
C38_ForOfVisitsAll ==
  queueCall.op = "for...of"
    => queueCall.visited = elementsFrom(queue, queue.head)

\* no doneWithItemCallback has been invoked twice
EachCallbackOnce == \A i \in 1..Len(poolObjects) : poolObjects[i].calls <= 1

\* C39: while each doneWithItemCallback is invoked at most once, no item is
\* held by two PoolObjects that are both outstanding, Pool.get() calls
\* createElement only when no released item waits in the pool, and otherwise
\* hands out the item that was released first.
C39_PoolHandsOutOnce ==
  EachCallbackOnce
    => /\ \A i, j \in 1..Len(poolObjects) :
            (i # j /\ poolObjects[i].calls = 0 /\ poolObjects[j].calls = 0)
              => poolObjects[i].item # poolObjects[j].item
       /\ poolCall.op = "get"
            => IF poolCall.waiting = <<>> THEN poolCall.created
               ELSE ~poolCall.created /\ poolCall.item = Head(poolCall.waiting)

C39_Witness ==
  /\ EachCallbackOnce
  /\ poolCall.op = "get" /\ Len(poolCall.waiting) >= 2
  /\ poolCall.item = Head(poolCall.waiting) /\ poolCall.item = 2

\* the doTask() calls runWithRetry has made
doTaskCalls == Len(retry.tasks) + (IF retry.pc = "await doTask()" THEN 1 ELSE 0)

\* C36: with retryCount >= 0, runWithRetry calls doTask at most retryCount + 1
\* times; it resolves with the result of the first call that succeeds, also
\* when earlier calls failed, and it rejects, with the last error, only when
\* all retryCount + 1 calls failed.
C36_RetryUntilSuccess ==
  (retry.pc # "idle" /\ retry.retryCount >= 0)
    => /\ doTaskCalls <= retry.retryCount + 1
       /\ retry.pc = "done"
            => IF \E k \in 1..Len(retry.tasks) : retry.tasks[k].ok
               THEN retry.promise
                      = [state |-> "resolved",
                         of |-> CHOOSE k \in 1..Len(retry.tasks) :
                                  /\ retry.tasks[k].ok
                                  /\ \A j \in 1..(k - 1) : ~retry.tasks[j].ok]
               ELSE /\ retry.promise = [state |-> "rejected", of |-> Len(retry.tasks)]
                    /\ Len(retry.tasks) = retry.retryCount + 1

\* a value no object of the model holds
DefaultValue == JsString("the default value")

\* p and q part ways: neither is the beginning of the other
partWays(p, q) ==
  \E i \in 1..Min(Len(p), Len(q)) :
    p[i] # q[i] /\ SubSeq(p, 1, i - 1) = SubSeq(q, 1, i - 1)

\* C32: for an object, a non-empty path of string keys and a value that is
\* not null, set(obj, path, value) returns, the value is then what
\* getPath(obj, path, d) returns, every segment of the path that was missing
\* holds an object with nothing but the next key, and what getPath returns
\* for a path that parts ways with path is what it returned before.
C32_SetThenGetPath ==
  (Called("set") /\ call.args.path # <<>> /\ ~valueNotSet(call.args.value))
    => LET a == call.args
           after == call.result.val
       IN /\ call.result.kind = "ok"
          /\ getPath(after, a.path, DefaultValue) = a.value
          /\ \A k \in 1..(Len(a.path) - 1) :
               getPath(a.obj, SubSeq(a.path, 1, k), DefaultValue) = DefaultValue
                 => DOMAIN getPath(after, SubSeq(a.path, 1, k), DefaultValue).props
                      = {a.path[k + 1]}
          /\ \A p \in UtilPaths :
               partWays(p, a.path)
                 => getPath(after, p, DefaultValue) = getPath(a.obj, p, DefaultValue)

=============================================================================
